---- MODULE Spec2Model ----
\* Verification model of mhpenta/imagegen: the token-bucket rate limiter
\* (package ratelimiter), the composite limiter built from two buckets, and the
\* Manager's rate-limited dispatch (package imagegen).
\*
\* Time is an integer clock `now`; durations are integers in the same unit.
\* The code refills once per time.Minute; the model keeps the arithmetic of the
\* code and scales the interval down to RefillInterval clock units.
EXTENDS Integers, Sequences, FiniteSets, TLC

\* ---------------------------------------------------------------------------
\* Bounds
\* ---------------------------------------------------------------------------
RefillInterval == 10     \* clock units standing for the one-minute interval
MaxTime == 13            \* the clock stops here
MaxCap == 2              \* bucket capacities range over 0..MaxCap
MaxAsk == 3              \* amounts asked of a bucket range over 0..MaxAsk
ClockStep == 5           \* the Manager's goroutines observe the clock every ClockStep units

\* float64(+Inf) converted to time.Duration is implementation-dependent in Go:
\* amd64 yields the minimum int64, arm64 saturates to the maximum int64.  After
\* `waitDuration + waitDuration/10` wraps around, the result is a very large
\* positive duration on amd64 and a very large negative duration on arm64.
\* The two values below stand for those results; a call that meets the
\* conversion takes either.
InfWaitAmd64 == 1000000
InfWaitArm64 == 0 - 1000000
GoArchs == {"amd64", "arm64"}

MaxWaits == {0, RefillInterval \div 2}   \* MaxWaitDuration values: no limit, half an interval

BucketNames == {"tokens", "requests"}
NoTime == 0 - 1

\* Manager
MaxPromptLen == 1        \* prompts have 0..MaxPromptLen characters
MaxRequestsPerMinute == 2
TokenBuffer == 100       \* tokenBuffer of checkRateLimit
SafetyMarginTenths == 12 \* SafetyMargin 1.2 of NewSimpleTokenEstimator
EstimateOverhead == 3    \* the +3 of EstimateTokens
ModelNanoBanana2 == "nano-banana-2"
ModelDefault == ModelNanoBanana2
TestModel == "test-model"
TestProvider == "test-provider"
TestModelAPI == "test-model-api"
Procs == {"p1", "p2"}    \* goroutines calling the Manager
NoProc == "none"
LimiterIds == {"L1"}     \* RateLimiter instances
Nil == "nil"
Ops == {"Generate", "Edit", "EditMultiple"}

\* Rate limiter registry
RegistryIds == {"test-model", "nano-banana-2", "non-existent"}   \* identifiers passed to Get and Set
RegistryLimiters == {"L1", "L2", "nil"}                          \* Limiter values passed to Set
Unset == "unset"                                                 \* no Set yet

\* Router configuration
OtherProvider == "other-provider"
OtherModelAPI == "other-model-api"
RouterModels == {TestModel, ModelNanoBanana2}    \* model identifiers the router is configured for
Gens == {"gen", "gemini"}                        \* backend instances: one without sessions, a GeminiGenerator
MaxSends == 2                                    \* Send calls on the conversation
Unknown == "unknown"
RouterProcs == {"p1"}                            \* goroutines dispatching while the router is reconfigured
\* the RateLimiter instances the heap has room for: three for the limiters made
\* for each model (the one in force, one a goroutine still holds, a new one)
SlotsOf(model) == IF model = "test-model" THEN <<"L1", "L2", "L3">> ELSE <<"L4", "L5", "L6">>
RouterLimiterIds == {"L1", "L2", "L3", "L4", "L5", "L6"}
MappingA == [Provider |-> TestProvider, ActualModelName |-> TestModelAPI]
MappingB == [Provider |-> OtherProvider, ActualModelName |-> OtherModelAPI]
RouterMappings == {MappingA, MappingB}
\* RateLimits a registration declares: none, or a tokens capacity that holds
\* exactly one request with an empty prompt
RouterLimits == {<<0, 0>>, <<TokenBuffer, 1>>}

VARIABLES
    now,          \* time.Now()
    tb,           \* a TokenBucket used on its own: capacity, remaining, refillInterval, lastRefill
    exhaustedAt,  \* observation: the earliest instant since the last successful Consume at which tb.remaining was 0
    ret,          \* observation: the call on tb that has just returned, with the state it found
    rl,           \* a RateLimiter used on its own: TokensBucket and RequestsBucket
    wac,          \* the WaitAndConsume call on rl that is in progress, if any
    lret,         \* observation: the call on rl that has just returned, with the state it found
    heap,         \* the RateLimiter instances the Manager's limiters point to
    mu,           \* TokenBucket.mu of every bucket in heap: the goroutine holding it, or NoProc
    granted,      \* observation: per bucket in heap, the amount Consume has handed out since its last full refill
    rateLimiters, \* Manager.rateLimiters
    modelMappings,\* Manager.modelMappings
    providers,    \* Manager.providers
    defaultModel, \* Manager.defaultModel
    req,          \* per goroutine: the Generate/Edit/EditMultiple call it is in, its position and locals
    backendCalls, \* observation: per goroutine, the calls its current request has made to a backend
    registry,     \* rateLimiterMapRegistry.registry of a registry used on its own
    lastSet,      \* observation: per identifier, the limiter of the latest Set and of the one before
    gret,         \* observation: the Get on registry that has just returned
    closeCalls,   \* observation: per backend instance, the Close() calls it has received
    installed,    \* observation: per model, the limiter SetRateLimiter installed last, no RegisterModel since
    keptLimiter,  \* observation: per model, whether its latest registration left the limiter it found in force
    lastMapping,  \* observation: per model, the mapping passed to its latest RegisterModel
    built,        \* observation: the model list and the option NewManager was called with
    closeRet,     \* observation: the Close that has just returned, with the map it found
    conv,         \* the ManagedConversation: history, lockedModel, modelLocked, providerConv, convProvider, mu
    sessions,     \* the backend's Conversation objects, by address
    send,         \* the Send call on the conversation: its position, its arguments, what it returned last
    arrays,       \* memory: the backing arrays of []GeneratedImage slices, by address
    bytes,        \* memory: the backing arrays of []byte image data, by address
    view,         \* the slice History() returned last, in the caller's hands
    defaultWrite, \* the value a SetDefaultModel call is storing under Manager.mu, Nil when none is
    cstats,       \* observation: what the conversation's Sends did since the last Clear
    waiter,       \* a caller that calls Wait on tb until the wait is zero and then TryConsume
    declared,     \* observation: per model, the rate limits of its latest registration and the SetRateLimiter calls
    peer,         \* a second goroutine's call on the conversation: its position and locals
    mmu           \* Manager.mu: the goroutines holding its read lock

bucketVars == <<tb, exhaustedAt, ret>>
limiterVars == <<rl, wac, lret>>
mapRegistryVars == <<registry, lastSet, gret>>
routerObs == <<closeCalls, installed, keptLimiter, lastMapping>>
constructVars == <<built, closeRet>>
convVars == <<conv, sessions, send, arrays, bytes, view, defaultWrite, cstats>>
lateVars == <<waiter, declared, peer, mmu>>
extVars == <<constructVars, convVars, lateVars>>
registryVars == <<rateLimiters, modelMappings, providers, defaultModel, mapRegistryVars, routerObs, extVars>>
managerVars == <<heap, mu, granted, rateLimiters, modelMappings, providers, defaultModel, req, backendCalls,
                 mapRegistryVars, routerObs, extVars>>
vars == <<now, tb, exhaustedAt, ret, rl, wac, lret,
          heap, mu, granted, rateLimiters, modelMappings, providers, defaultModel, req, backendCalls,
          registry, lastSet, gret, closeCalls, installed, keptLimiter, lastMapping,
          built, closeRet, conv, sessions, send, arrays, bytes, view, defaultWrite, cstats,
          waiter, declared, peer, mmu>>

\* ---------------------------------------------------------------------------
\* TokenBucket
\* ---------------------------------------------------------------------------
Min(a, b) == IF a <= b THEN a ELSE b
Max(a, b) == IF a >= b THEN a ELSE b

NewTokenBucket(capacity, initialTokens, refillInterval, t) ==
    [capacity |-> capacity, remaining |-> initialTokens,
     refillInterval |-> refillInterval, lastRefill |-> t]

\* now.Sub(tb.lastRefill) >= tb.refillInterval
RefillDue(b, t) == t - b.lastRefill >= b.refillInterval

\* int(float64(capacity) * (float64(timeSinceLastRefill) / float64(refillInterval)))
\* Durations are counted in whole units of the model's clock; the float64
\* product is taken as the exact quotient truncated toward zero (rounding in
\* the last nanosecond of a time.Duration is below the clock's resolution).
ReplenishedTokens(b, t) == (b.capacity * (t - b.lastRefill)) \div b.refillInterval

\* the remaining amount HasCapacity compares against: a due full refill counts
HasCapacityRemaining(b, t) == IF RefillDue(b, t) THEN b.capacity ELSE b.remaining

TokenBucketHasCapacity_Commits(b, t, tokens) ==
    [tb |-> IF RefillDue(b, t) THEN [b EXCEPT !.remaining = b.capacity, !.lastRefill = t] ELSE b,
     ok |-> tokens <= HasCapacityRemaining(b, t)]

\* HasCapacity under the bucket's lock: `remaining` is a local of the method,
\* the bucket's fields are not assigned
TokenBucketHasCapacity(b, t, tokens) ==
    [tb |-> b, ok |-> tokens <= HasCapacityRemaining(b, t)]

\* the refill step of Consume: a due refill is committed
ConsumeRefill(b, t) ==
    IF RefillDue(b, t) THEN [b EXCEPT !.remaining = b.capacity, !.lastRefill = t] ELSE b

ConsumeCheck_Strict(b, tokens) == tokens < b.remaining

ConsumeCheck(b, tokens) == tokens <= b.remaining

ConsumeTake(b, tokens) == [b EXCEPT !.remaining = @ - tokens]

\* Consume under the bucket's lock: the bucket afterwards and the result
TokenBucketConsume(b, t, tokens) ==
    LET r == ConsumeRefill(b, t)
    IN IF ConsumeCheck(r, tokens)
       THEN [tb |-> ConsumeTake(r, tokens), ok |-> TRUE]
       ELSE [tb |-> r, ok |-> FALSE]

TokenBucketTryConsume(b, t, tokens) == TokenBucketConsume(b, t, tokens)

\* effectiveRemaining of TimeUntilAvailable: full refill if due, else the
\* partial linear refill, neither of them committed
EffectiveRemaining(b, t) ==
    IF RefillDue(b, t) THEN b.capacity
    ELSE IF t - b.lastRefill > 0
         THEN Min(b.capacity, b.remaining + ReplenishedTokens(b, t))
         ELSE b.remaining

\* time.Duration(float64(tokensNeeded) / tokenRefillRate) plus 10%, where
\* tokenRefillRate = float64(capacity) / float64(refillInterval).  With
\* capacity 0 the rate is 0 and the quotient is +Inf.
WaitDuration(b, tokensNeeded, arch) ==
    IF b.capacity = 0
    THEN IF arch = "amd64" THEN InfWaitAmd64 ELSE InfWaitArm64
    ELSE LET waitDuration == (tokensNeeded * b.refillInterval) \div b.capacity
         IN waitDuration + (waitDuration \div 10)

TokenBucketTimeUntilAvailable(b, t, tokens, arch) ==
    LET effectiveRemaining == EffectiveRemaining(b, t)
    IN IF tokens <= effectiveRemaining THEN 0
       ELSE WaitDuration(b, tokens - effectiveRemaining, arch)

WaitRefill_Uncapped(b, t) ==
    IF RefillDue(b, t) THEN [b EXCEPT !.remaining = b.capacity, !.lastRefill = t]
    ELSE IF t - b.lastRefill > 0
         THEN [b EXCEPT !.remaining = b.remaining + ReplenishedTokens(b, t), !.lastRefill = t]
         ELSE b

\* the refill step of Wait: full or partial refill, both committed
WaitRefill(b, t) ==
    IF RefillDue(b, t) THEN [b EXCEPT !.remaining = b.capacity, !.lastRefill = t]
    ELSE IF t - b.lastRefill > 0
         THEN [b EXCEPT !.remaining = Min(b.capacity, b.remaining + ReplenishedTokens(b, t)),
                        !.lastRefill = t]
         ELSE b

TokenBucketWait_NoCommit(b, t, tokens, arch) ==
    [tb |-> b, dur |-> TokenBucketTimeUntilAvailable(b, t, tokens, arch)]

\* Wait under the bucket's lock: the bucket afterwards and the duration
TokenBucketWait(b, t, tokens, arch) ==
    LET r == WaitRefill(b, t)
    IN [tb |-> r,
        dur |-> IF tokens <= r.remaining THEN 0
                ELSE WaitDuration(r, tokens - r.remaining, arch)]

\* ---------------------------------------------------------------------------
\* RateLimiter: a tokens bucket and a requests bucket
\* ---------------------------------------------------------------------------
NewLimiter(tokensPerMinute, requestsPerMinute, t) ==
    [tokens |-> NewTokenBucket(tokensPerMinute, tokensPerMinute, RefillInterval, t),
     requests |-> NewTokenBucket(requestsPerMinute, requestsPerMinute, RefillInterval, t)]

\* rl.TokensBucket.HasCapacity(numTokens) && rl.RequestsBucket.HasCapacity(1)
RateLimiterHasCapacity(l, t, numTokens) ==
    [rl |-> [tokens |-> TokenBucketHasCapacity(l.tokens, t, numTokens).tb,
             requests |-> IF TokenBucketHasCapacity(l.tokens, t, numTokens).ok
                          THEN TokenBucketHasCapacity(l.requests, t, 1).tb
                          ELSE l.requests],
     ok |-> /\ TokenBucketHasCapacity(l.tokens, t, numTokens).ok
            /\ TokenBucketHasCapacity(l.requests, t, 1).ok]

RateLimiterTryConsume_SameAmount(l, t, numTokens) ==
    LET a == TokenBucketTryConsume(l.tokens, t, numTokens)
        b == TokenBucketTryConsume(l.requests, t, numTokens)
    IN IF a.ok
       THEN [rl |-> [tokens |-> a.tb, requests |-> b.tb], ok |-> b.ok]
       ELSE [rl |-> [tokens |-> a.tb, requests |-> l.requests], ok |-> FALSE]

RateLimiterTryConsume_Rollback(l, t, numTokens) ==
    LET a == TokenBucketTryConsume(l.tokens, t, numTokens)
        b == TokenBucketTryConsume(l.requests, t, 1)
    IN IF a.ok
       THEN [rl |-> [tokens |-> IF b.ok THEN a.tb ELSE ConsumeRefill(l.tokens, t),
                     requests |-> b.tb], ok |-> b.ok]
       ELSE [rl |-> [tokens |-> a.tb, requests |-> l.requests], ok |-> FALSE]

\* rl.TokensBucket.TryConsume(numTokens) && rl.RequestsBucket.TryConsume(1):
\* the requests bucket is only called when the tokens bucket accepted
RateLimiterTryConsume(l, t, numTokens) ==
    LET a == TokenBucketTryConsume(l.tokens, t, numTokens)
        b == TokenBucketTryConsume(l.requests, t, 1)
    IN IF a.ok
       THEN [rl |-> [tokens |-> a.tb, requests |-> b.tb], ok |-> b.ok]
       ELSE [rl |-> [tokens |-> a.tb, requests |-> l.requests], ok |-> FALSE]

RateLimiterCanProceed(l, t, numTokens) == RateLimiterTryConsume(l, t, numTokens)

RateLimiterConsume(l, t, numTokens) == RateLimiterTryConsume(l, t, numTokens)

RateLimiterWait(l, t, tokens, arch) ==
    [rl |-> [l EXCEPT !.tokens = TokenBucketWait(l.tokens, t, tokens, arch).tb],
     dur |-> TokenBucketWait(l.tokens, t, tokens, arch).dur]

\* the larger of the two buckets' estimates
RateLimiterTimeUntilAvailable(l, t, tokens, arch) ==
    LET tokenWait == TokenBucketTimeUntilAvailable(l.tokens, t, tokens, arch)
        requestWait == TokenBucketTimeUntilAvailable(l.requests, t, 1, arch)
    IN IF tokenWait > requestWait THEN tokenWait ELSE requestWait

WaitExceedsMax_Reversed(waitDuration, maxWait) == maxWait > 0 /\ waitDuration < maxWait

\* WaitAndConsume: maxWait > 0 && waitDuration > maxWait
WaitExceedsMax(waitDuration, maxWait) == maxWait > 0 /\ waitDuration > maxWait

SelectCtxDone_FallsThrough(l, t, tokens) ==
    [rl |-> RateLimiterCanProceed(l, t, tokens).rl, err |-> "ctx"]

\* WaitAndConsume: `case <-ctx.Done(): return ctx.Err()`
SelectCtxDone(l, t, tokens) == [rl |-> l, err |-> "ctx"]

\* WaitAndConsume: the final CanProceed after the wait, or without one
ConsumeAfterWait(l, t, tokens) ==
    LET r == RateLimiterCanProceed(l, t, tokens)
    IN [rl |-> r.rl, err |-> IF r.ok THEN "nil" ELSE "failed_after_waiting"]

\* ---------------------------------------------------------------------------
\* rateLimiterMapRegistry: a map from model identifier to Limiter.  Get runs
\* under the read lock and Set under the write lock of the registry, from the
\* first statement to the return, so each call is one step.
\* ---------------------------------------------------------------------------
EmptyMap == [k \in {} |-> Nil]

\* the Go map assignment m[k] = v
MapSet_KeepsFirst(f, k, v) == [x \in (DOMAIN f) \cup {k} |-> IF x \in DOMAIN f THEN f[x] ELSE v]

MapSet(f, k, v) == [x \in (DOMAIN f) \cup {k} |-> IF x = k THEN v ELSE f[x]]

rateLimiterMapRegistryGet(r, model) ==
    IF model \in DOMAIN r
    THEN [limiter |-> r[model], err |-> "nil"]
    ELSE [limiter |-> Nil, err |-> "not_found"]

rateLimiterMapRegistrySet_KeepsFirst(r, model, limiter) ==
    IF model \in DOMAIN r THEN r ELSE MapSet(r, model, limiter)

rateLimiterMapRegistrySet(r, model, limiter) == MapSet(r, model, limiter)

NoGet == [op |-> "none", model |-> "", limiter |-> Nil, err |-> "nil"]

\* no registry in use
NoRegistry ==
    /\ registry = EmptyMap
    /\ lastSet = [id \in RegistryIds |-> [cur |-> Unset, prev |-> Unset]]
    /\ gret = NoGet

\* ---------------------------------------------------------------------------
\* A client calling one TokenBucket, one call at a time
\* ---------------------------------------------------------------------------
NoRet == [op |-> "none", n |-> 0, ok |-> FALSE, dur |-> 0, pre |-> NewTokenBucket(0, 0, 0, 0)]

NoLimiter == NewLimiter(0, 0, 0)
NoWac == [state |-> "idle", n |-> 0, maxWait |-> 0, dur |-> 0, start |-> 0]
NoLRet == [op |-> "none", n |-> 0, maxWait |-> 0, ok |-> FALSE, dur |-> 0, err |-> "nil",
           start |-> 0, pre |-> NoLimiter]

\* the fields of a GenerateConfig the Manager reads or writes
NoConfig == [Model |-> "", WaitOnRateLimit |-> FALSE, MaxWaitDuration |-> 0]

\* no goroutine is in the Manager
IdleReq == [pc |-> "idle", phase |-> "none", op |-> "none", cfgModel |-> "", model |-> "",
            promptLen |-> 0, wait |-> FALSE, maxWait |-> 0,
            lim |-> Nil, n |-> 0, ok |-> FALSE, tokenWait |-> 0, wakeAt |-> 0,
            cancelledAsleep |-> FALSE,
            tookTokens |-> 0, tookRequests |-> 0, err |-> "nil", retryAfter |-> 0,
            givenModel |-> "", routed |-> "", sentProvider |-> "",
            sent |-> NoConfig]

\* nothing observed of the router's configuration calls
\* the mapping of a model that is not registered
NoMapping == [Provider |-> Nil, ActualModelName |-> ""]

\* no NewManager call and no Close observed
NoBuilt == [models |-> <<>>, option |-> Nil]
NoCloseRet == [op |-> "none", held |-> EmptyMap, failing |-> {}, called |-> <<>>, errs |-> <<>>, err |-> "nil"]
NoConstruct == built = NoBuilt /\ closeRet = NoCloseRet

\* no conversation started
NoSession == 0
NoArray == 0
NoConv == [history |-> <<>>, lockedModel |-> "", modelLocked |-> FALSE,
           providerConv |-> NoSession, convProvider |-> "", mu |-> NoProc]
IdleSend == [pc |-> "idle", prompt |-> "", images |-> <<>>, cfgModel |-> Nil, model |-> "",
             path |-> "none", op |-> "none", calls |-> 0, err |-> "nil"]
NoStats == [started |-> 0, resolved |-> 0, created |-> 0, continued |-> 0, ok |-> 0, okCalls |-> 0,
            provs |-> {}, cleared |-> FALSE]
NoSessions == [s \in 1..MaxSends |-> [history |-> <<>>]]
NoArrays == [a \in 1..(2 * MaxSends) |-> <<>>]
NoBytes == [d \in 1..(2 * MaxSends) |-> ""]
NoConversation ==
    /\ conv = NoConv
    /\ sessions = NoSessions
    /\ send = IdleSend
    /\ arrays = NoArrays
    /\ bytes = NoBytes
    /\ view = <<>>
    /\ defaultWrite = Nil
    /\ cstats = NoStats

\* no caller waiting on tb, nothing observed of registrations, no second
\* goroutine on the conversation, Manager.mu free
NoWaiter == [pc |-> "idle", n |-> 0, dur |-> 0, ok |-> FALSE]
NoLimits == <<0 - 1, 0 - 1>>
NoDeclared == [m \in RouterModels |-> [limits |-> NoLimits, again |-> FALSE, set |-> FALSE]]
IdlePeer == [pc |-> "idle", op |-> "none", n |-> 0, model |-> "", path |-> "none", err |-> "nil"]
NoLate ==
    /\ waiter = NoWaiter
    /\ declared = NoDeclared
    /\ peer = IdlePeer
    /\ mmu = {}

NoRouterObs ==
    /\ closeCalls = [g \in Gens |-> 0]
    /\ installed = [m \in RouterModels |-> Unknown]
    /\ keptLimiter = [m \in RouterModels |-> FALSE]
    /\ lastMapping = [m \in RouterModels |-> NoMapping]
    /\ NoConstruct
    /\ NoConversation
    /\ NoLate

NoManager ==
    /\ heap = [l \in LimiterIds |-> NewLimiter(0, 0, 0)]
    /\ mu = [l \in LimiterIds |-> [b \in BucketNames |-> NoProc]]
    /\ granted = [l \in LimiterIds |-> [b \in BucketNames |-> 0]]
    /\ rateLimiters = [m \in {TestModel} |-> Nil]
    /\ modelMappings = [m \in {TestModel} |-> [Provider |-> Nil, ActualModelName |-> ""]]
    /\ providers = [pr \in {TestProvider} |-> Nil]
    /\ defaultModel = ModelDefault
    /\ req = [p \in Procs |-> IdleReq]
    /\ backendCalls = [p \in Procs |-> 0]
    /\ NoRegistry
    /\ NoRouterObs

InitBucket ==
    /\ now = 0
    /\ NoManager
    /\ rl = NoLimiter /\ wac = NoWac /\ lret = NoLRet
    /\ \E capacity \in 0..MaxCap : \E initialTokens \in 0..capacity :
          /\ tb = NewTokenBucket(capacity, initialTokens, RefillInterval, 0)
          /\ exhaustedAt = IF initialTokens = 0 THEN 0 ELSE NoTime
    /\ ret = NoRet

\* the clock advances; the observation of the last call is dropped
Tick ==
    /\ now < MaxTime
    /\ now' = now + 1
    /\ ret' = NoRet
    /\ lret' = NoLRet
    /\ UNCHANGED <<tb, exhaustedAt, rl, wac, managerVars>>

Observe(before, after, consumed) ==
    IF after.remaining = 0
    THEN IF consumed \/ exhaustedAt = NoTime THEN now ELSE exhaustedAt
    ELSE IF consumed THEN NoTime ELSE exhaustedAt

CallHasCapacity(n) ==
    LET r == TokenBucketHasCapacity(tb, now, n)
    IN /\ tb' = r.tb
       /\ ret' = [op |-> "HasCapacity", n |-> n, ok |-> r.ok, dur |-> 0, pre |-> tb]
       /\ exhaustedAt' = Observe(tb, r.tb, FALSE)
       /\ UNCHANGED <<now, limiterVars, managerVars>>

CallTryConsume(n) ==
    LET r == TokenBucketTryConsume(tb, now, n)
    IN /\ tb' = r.tb
       /\ ret' = [op |-> "TryConsume", n |-> n, ok |-> r.ok, dur |-> 0, pre |-> tb]
       /\ exhaustedAt' = Observe(tb, r.tb, r.ok)
       /\ UNCHANGED <<now, limiterVars, managerVars>>

CallTimeUntilAvailable(n, arch) ==
    /\ ret' = [op |-> "TimeUntilAvailable", n |-> n, ok |-> FALSE,
               dur |-> TokenBucketTimeUntilAvailable(tb, now, n, arch), pre |-> tb]
    /\ UNCHANGED <<now, tb, exhaustedAt, limiterVars, managerVars>>

CallWait(n, arch) ==
    LET r == TokenBucketWait(tb, now, n, arch)
    IN /\ tb' = r.tb
       /\ ret' = [op |-> "Wait", n |-> n, ok |-> FALSE, dur |-> r.dur, pre |-> tb]
       /\ exhaustedAt' = Observe(tb, r.tb, FALSE)
       /\ UNCHANGED <<now, limiterVars, managerVars>>

NextBucket ==
    \/ Tick
    \/ \E n \in 0..MaxAsk : CallHasCapacity(n)
    \/ \E n \in 0..MaxAsk : CallTryConsume(n)
    \/ \E n \in 0..MaxAsk : \E arch \in GoArchs : CallTimeUntilAvailable(n, arch)
    \/ \E n \in 0..MaxAsk : \E arch \in GoArchs : CallWait(n, arch)

SpecBucket == InitBucket /\ [][NextBucket]_vars

\* ---------------------------------------------------------------------------
\* A client calling one RateLimiter, one call at a time
\* ---------------------------------------------------------------------------
InitLimiter ==
    /\ now = 0
    /\ NoManager
    /\ tb = NewTokenBucket(0, 0, 0, 0) /\ exhaustedAt = NoTime /\ ret = NoRet
    /\ \E tokensPerMinute \in 0..MaxCap : \E requestsPerMinute \in 0..MaxCap :
          rl = NewLimiter(tokensPerMinute, requestsPerMinute, 0)
    /\ wac = NoWac
    /\ lret = NoLRet

LRet(op, n, maxWait, ok, dur, err, start, pre) ==
    [op |-> op, n |-> n, maxWait |-> maxWait, ok |-> ok, dur |-> dur, err |-> err,
     start |-> start, pre |-> pre]

CallRLHasCapacity(n) ==
    LET r == RateLimiterHasCapacity(rl, now, n)
    IN /\ wac.state = "idle"
       /\ rl' = r.rl
       /\ lret' = LRet("HasCapacity", n, 0, r.ok, 0, "nil", now, rl)
       /\ UNCHANGED <<now, bucketVars, wac, managerVars>>

CallRLTryConsume(n) ==
    LET r == RateLimiterTryConsume(rl, now, n)
    IN /\ wac.state = "idle"
       /\ rl' = r.rl
       /\ lret' = LRet("TryConsume", n, 0, r.ok, 0, "nil", now, rl)
       /\ UNCHANGED <<now, bucketVars, wac, managerVars>>

CallRLTimeUntilAvailable(n, arch) ==
    /\ wac.state = "idle"
    /\ lret' = LRet("TimeUntilAvailable", n, 0, FALSE,
                    RateLimiterTimeUntilAvailable(rl, now, n, arch), "nil", now, rl)
    /\ UNCHANGED <<now, bucketVars, rl, wac, managerVars>>

\* WaitAndConsume up to its select, or to its return when it does not sleep.
\* ctxDone: the caller's context is already cancelled when the call is made.
CallWaitAndConsume(n, maxWait, ctxDone, arch) ==
    LET waitDuration == RateLimiterTimeUntilAvailable(rl, now, n, arch)
    IN /\ wac.state = "idle"
       /\ IF waitDuration > 0
          THEN IF WaitExceedsMax(waitDuration, maxWait)
               THEN /\ lret' = LRet("WaitAndConsume", n, maxWait, FALSE, waitDuration,
                                    "wait_exceeded", now, rl)
                    /\ UNCHANGED <<rl, wac>>
               ELSE IF ctxDone
               THEN /\ rl' = SelectCtxDone(rl, now, n).rl
                    /\ lret' = LRet("WaitAndConsume", n, maxWait, FALSE, waitDuration,
                                    SelectCtxDone(rl, now, n).err, now, rl)
                    /\ UNCHANGED wac
               ELSE /\ wac' = [state |-> "sleeping", n |-> n, maxWait |-> maxWait,
                               dur |-> waitDuration, start |-> now]
                    /\ lret' = NoLRet
                    /\ UNCHANGED rl
          ELSE /\ rl' = ConsumeAfterWait(rl, now, n).rl
               /\ lret' = LRet("WaitAndConsume", n, maxWait, ConsumeAfterWait(rl, now, n).err = "nil",
                               waitDuration, ConsumeAfterWait(rl, now, n).err, now, rl)
               /\ UNCHANGED wac
       /\ UNCHANGED <<now, bucketVars, managerVars>>

\* the caller's context is cancelled, or its deadline passes, during the sleep
WaitAndConsumeCtxDone ==
    /\ wac.state = "sleeping"
    /\ rl' = SelectCtxDone(rl, now, wac.n).rl
    /\ lret' = LRet("WaitAndConsume", wac.n, wac.maxWait, FALSE, wac.dur,
                    SelectCtxDone(rl, now, wac.n).err, wac.start, rl)
    /\ wac' = NoWac
    /\ UNCHANGED <<now, bucketVars, managerVars>>

\* the timer fires, no earlier than waitDuration after it was set
WaitAndConsumeTimer ==
    /\ wac.state = "sleeping"
    /\ now >= wac.start + wac.dur
    /\ rl' = ConsumeAfterWait(rl, now, wac.n).rl
    /\ lret' = LRet("WaitAndConsume", wac.n, wac.maxWait, ConsumeAfterWait(rl, now, wac.n).err = "nil",
                    wac.dur, ConsumeAfterWait(rl, now, wac.n).err, wac.start, rl)
    /\ wac' = NoWac
    /\ UNCHANGED <<now, bucketVars, managerVars>>

NextLimiter ==
    \/ Tick
    \/ \E n \in 0..MaxAsk : CallRLHasCapacity(n)
    \/ \E n \in 0..MaxAsk : CallRLTryConsume(n)
    \/ \E n \in 0..MaxAsk : \E arch \in GoArchs : CallRLTimeUntilAvailable(n, arch)
    \/ \E n \in 0..MaxAsk : \E maxWait \in MaxWaits : \E ctxDone \in BOOLEAN : \E arch \in GoArchs :
          CallWaitAndConsume(n, maxWait, ctxDone, arch)
    \/ WaitAndConsumeCtxDone
    \/ WaitAndConsumeTimer

SpecLimiter == InitLimiter /\ [][NextLimiter]_vars

\* ---------------------------------------------------------------------------
\* A client calling one rateLimiterMapRegistry
\* ---------------------------------------------------------------------------
InitRegistry ==
    /\ now = 0
    /\ tb = NewTokenBucket(0, 0, 0, 0) /\ exhaustedAt = NoTime /\ ret = NoRet
    /\ rl = NoLimiter /\ wac = NoWac /\ lret = NoLRet
    /\ NoManager

CallRegistryGet(model) ==
    LET r == rateLimiterMapRegistryGet(registry, model)
    IN /\ gret' = [op |-> "Get", model |-> model, limiter |-> r.limiter, err |-> r.err]
       /\ UNCHANGED <<now, bucketVars, limiterVars, heap, mu, granted, rateLimiters, modelMappings,
                      providers, defaultModel, req, backendCalls, registry, lastSet, routerObs, extVars>>

CallRegistrySet(model, limiter) ==
    /\ registry' = rateLimiterMapRegistrySet(registry, model, limiter)
    /\ lastSet' = [lastSet EXCEPT ![model] = [cur |-> limiter, prev |-> lastSet[model].cur]]
    /\ gret' = NoGet
    /\ UNCHANGED <<now, bucketVars, limiterVars, heap, mu, granted, rateLimiters, modelMappings,
                   providers, defaultModel, req, backendCalls, routerObs, extVars>>

NextRegistry ==
    \/ \E model \in RegistryIds : CallRegistryGet(model)
    \/ \E model \in RegistryIds : \E limiter \in RegistryLimiters : CallRegistrySet(model, limiter)

SpecRegistry == InitRegistry /\ [][NextRegistry]_vars

\* ---------------------------------------------------------------------------
\* Manager: goroutines calling Generate, Edit and EditMultiple concurrently.
\* A goroutine's request advances one step at a time; a step is a stretch of
\* code that takes no lock other than the one it holds, so that the
\* interleavings of the model are those of the code.  Manager.mu is held only
\* over map reads and writes, each of which is one step.
\* ---------------------------------------------------------------------------
MapGet(f, k) == IF k \in DOMAIN f THEN f[k] ELSE Nil

\* SimpleTokenEstimator.EstimateTokens: 0 for the empty text, otherwise
\* ceil(chars / 4 * 1.2) + 3
EstimateTokens(chars) ==
    IF chars = 0 THEN 0
    ELSE ((chars * SafetyMarginTenths + 39) \div 40) + EstimateOverhead

\* Manager.resolveModel
resolveModel(cfgModel, dflt) ==
    LET model == IF cfgModel # "" THEN cfgModel ELSE ModelDefault
    IN IF model = ModelDefault THEN dflt ELSE model

NeedsLimiter_Both(tokensPerMinute, requestsPerMinute) ==
    tokensPerMinute > 0 /\ requestsPerMinute > 0

\* RegisterModel: a limiter is made when either declared limit is positive
NeedsLimiter(tokensPerMinute, requestsPerMinute) ==
    tokensPerMinute > 0 \/ requestsPerMinute > 0

\* NewManager(gen) for a backend whose Models() is the single model
\* test-model served by test-provider, with the rate limits drawn here
Init ==
    /\ now = 0
    /\ tb = NewTokenBucket(0, 0, 0, 0) /\ exhaustedAt = NoTime /\ ret = NoRet
    /\ rl = NoLimiter /\ wac = NoWac /\ lret = NoLRet
    /\ \E tokensPerMinute \in {TokenBuffer, 2 * TokenBuffer + EstimateTokens(MaxPromptLen)} :
       \E requestsPerMinute \in 1..MaxRequestsPerMinute :
          /\ heap = [l \in LimiterIds |-> NewLimiter(tokensPerMinute, requestsPerMinute, 0)]
          /\ rateLimiters = [m \in {TestModel} |->
                               IF NeedsLimiter(tokensPerMinute, requestsPerMinute) THEN "L1" ELSE Nil]
    /\ mu = [l \in LimiterIds |-> [b \in BucketNames |-> NoProc]]
    /\ granted = [l \in LimiterIds |-> [b \in BucketNames |-> 0]]
    /\ modelMappings = [m \in {TestModel} |-> [Provider |-> TestProvider, ActualModelName |-> TestModelAPI]]
    /\ providers = [pr \in {TestProvider} |-> "gen"]
    /\ defaultModel = ModelDefault
    /\ req = [p \in Procs |-> IdleReq]
    /\ backendCalls = [p \in Procs |-> 0]
    /\ NoRegistry
    /\ NoRouterObs

\* the positions at which a request is inside a TokenBucket method
ConsumePcs == {"tc_tokens", "tc_requests", "cp_tokens", "cp_requests"}
EstimatePcs == {"ra_tokens", "ra_requests", "wa_tokens", "wa_requests"}
BucketOf(pc) == IF pc \in {"tc_tokens", "cp_tokens", "ra_tokens", "wa_tokens"} THEN "tokens" ELSE "requests"
\* the amount a request asks of a bucket: numTokens of the tokens bucket, 1 of the requests bucket
AmountOf(r) == IF BucketOf(r.pc) = "tokens" THEN r.n ELSE 1

AfterCheckRateLimit_IgnoresError(err) == "getGenerator"

\* Generate/Edit/EditMultiple: `if err := m.checkRateLimit(...); err != nil { return nil, err }`
AfterCheckRateLimit(err) == IF err = "nil" THEN "getGenerator" ELSE "done"

Finish(r, err) == [r EXCEPT !.pc = "done", !.phase = "none", !.err = err]

\* the request leaves checkRateLimit with this error
LeaveCheckRateLimit(r, err) ==
    IF AfterCheckRateLimit(err) = "done" THEN Finish(r, err)
    ELSE [r EXCEPT !.pc = "getGenerator", !.phase = "none"]

\* Generate, Edit, EditMultiple up to the call of checkRateLimit: a nil config
\* is replaced by DefaultConfig(), whose Model is ModelDefault, and the model is
\* resolved.  The three methods are the same code up to the method of the
\* backend they forward to, so which of the three the goroutine is in is
\* recorded where it shows, at the forward in GetGenerator.
Dispatch(p, cfgModel, promptLen, waitOnRateLimit, maxWait) ==
    /\ req[p].pc = "idle"
    /\ req' = [req EXCEPT ![p] = [IdleReq EXCEPT
                  !.pc = "checkRateLimit", !.cfgModel = cfgModel,
                  !.givenModel = cfgModel,
                  !.model = resolveModel(cfgModel, defaultModel),
                  !.promptLen = promptLen, !.wait = waitOnRateLimit,
                  !.maxWait = IF waitOnRateLimit THEN maxWait ELSE 0]]
    /\ backendCalls' = [backendCalls EXCEPT ![p] = 0]
    /\ UNCHANGED <<now, bucketVars, limiterVars, heap, mu, granted, registryVars>>

\* checkRateLimit: `limiter := m.rateLimiters[model]`, the return for a nil
\* limiter and the estimate
FetchLimiter(p) ==
    LET r == req[p]
        limiter == MapGet(rateLimiters, r.model)
        estimatedTokens == EstimateTokens(r.promptLen) + TokenBuffer
    IN /\ r.pc = "checkRateLimit"
       /\ req' = [req EXCEPT ![p] =
                    IF limiter = Nil THEN [r EXCEPT !.pc = "getGenerator"]
                    ELSE [r EXCEPT !.lim = limiter, !.n = estimatedTokens, !.phase = "lock",
                                   !.pc = IF r.wait THEN "wa_tokens" ELSE "tc_tokens"]]

\* checkRateLimit up to the call into the limiter
CheckRateLimit(p) ==
    /\ FetchLimiter(p)
    /\ UNCHANGED <<now, bucketVars, limiterVars, heap, mu, granted, registryVars, backendCalls>>

MutexFree_Always(holder) == TRUE

\* tb.mu.Lock() succeeds when no goroutine holds the mutex
MutexFree(holder) == holder = NoProc

\* Consume: tb.mu.Lock(), the refill if due and the comparison
\* `tokens <= tb.remaining`
ConsumeCompare(p) ==
    LET r == req[p]
        b == BucketOf(r.pc)
        refilled == ConsumeRefill(heap[r.lim][b], now)
    IN /\ r.pc \in ConsumePcs
       /\ r.phase = "lock"
       /\ MutexFree(mu[r.lim][b])
       /\ mu' = [mu EXCEPT ![r.lim][b] = p]
       /\ heap' = [heap EXCEPT ![r.lim][b] = refilled]
       /\ granted' = [granted EXCEPT ![r.lim][b] = IF RefillDue(heap[r.lim][b], now) THEN 0 ELSE @]
       /\ req' = [req EXCEPT ![p].ok = ConsumeCheck(refilled, AmountOf(r)), ![p].phase = "take"]
       /\ UNCHANGED <<now, bucketVars, limiterVars, registryVars, backendCalls>>

AfterConsume_ConsumesRequestAgain(r, ok) ==
    IF r.pc = "tc_tokens"
    THEN IF ok THEN [r EXCEPT !.pc = "tc_requests", !.phase = "lock"]
         ELSE [r EXCEPT !.pc = "ra_tokens", !.phase = "lock"]
    ELSE IF r.pc = "tc_requests"
    THEN IF ok THEN LeaveCheckRateLimit(r, "nil")
         ELSE [r EXCEPT !.pc = "ra_tokens", !.phase = "lock"]
    ELSE IF r.pc = "cp_tokens"
    THEN IF ok THEN [r EXCEPT !.pc = "cp_requests", !.phase = "lock"]
         ELSE LeaveCheckRateLimit(r, "failed_after_waiting")
    ELSE IF ok THEN [r EXCEPT !.pc = "tc_requests", !.phase = "lock"]
         ELSE LeaveCheckRateLimit(r, "failed_after_waiting")

\* where a request goes when a Consume returns
AfterConsume(r, ok) ==
    IF r.pc = "tc_tokens"
    THEN IF ok THEN [r EXCEPT !.pc = "tc_requests", !.phase = "lock"]
         ELSE [r EXCEPT !.pc = "ra_tokens", !.phase = "lock"]
    ELSE IF r.pc = "tc_requests"
    THEN IF ok THEN LeaveCheckRateLimit(r, "nil")
         ELSE [r EXCEPT !.pc = "ra_tokens", !.phase = "lock"]
    ELSE IF r.pc = "cp_tokens"
    THEN IF ok THEN [r EXCEPT !.pc = "cp_requests", !.phase = "lock"]
         ELSE LeaveCheckRateLimit(r, "failed_after_waiting")
    ELSE IF ok THEN LeaveCheckRateLimit(r, "nil")
         ELSE LeaveCheckRateLimit(r, "failed_after_waiting")

\* Consume: `tb.remaining -= tokens` when the comparison held, the deferred
\* Unlock, and the return into TryConsume / CanProceed
ConsumeReturn(p) ==
    LET r == req[p]
        b == BucketOf(r.pc)
        took == IF r.ok THEN AmountOf(r) ELSE 0
        r2 == [r EXCEPT !.ok = FALSE, !.tookTokens = IF b = "tokens" THEN @ + took ELSE @,
                        !.tookRequests = IF b = "requests" THEN @ + took ELSE @]
    IN /\ r.pc \in ConsumePcs
       /\ r.phase = "take"
       /\ heap' = [heap EXCEPT ![r.lim][b] = IF r.ok THEN ConsumeTake(@, AmountOf(r)) ELSE @]
       /\ granted' = [granted EXCEPT ![r.lim][b] = @ + took]
       /\ mu' = [mu EXCEPT ![r.lim][b] = NoProc]
       /\ req' = [req EXCEPT ![p] = AfterConsume(r2, r.ok)]
       /\ UNCHANGED <<now, bucketVars, limiterVars, registryVars, backendCalls>>

\* WaitAndConsume from the computed waitDuration to its select; ctxDone: the
\* caller's context is already done when the select is reached
AfterWaitEstimate(r, waitDuration, t, ctxDone) ==
    IF waitDuration > 0
    THEN IF WaitExceedsMax(waitDuration, r.maxWait) THEN LeaveCheckRateLimit(r, "wait_exceeded")
         ELSE IF ctxDone THEN LeaveCheckRateLimit(r, "ctx")
         ELSE [r EXCEPT !.pc = "sleep", !.phase = "none", !.wakeAt = t + waitDuration]
    ELSE [r EXCEPT !.pc = "cp_tokens", !.phase = "lock"]

\* TokenBucket.TimeUntilAvailable under the bucket's lock, and the return into
\* RateLimiter.TimeUntilAvailable and its caller
Estimate(p, arch, ctxDone) ==
    LET r == req[p]
        b == BucketOf(r.pc)
        d == TokenBucketTimeUntilAvailable(heap[r.lim][b], now, AmountOf(r), arch)
        waitDuration == IF r.tokenWait > d THEN r.tokenWait ELSE d
    IN /\ r.pc \in EstimatePcs
       /\ r.phase = "lock"
       /\ MutexFree(mu[r.lim][b])
       /\ req' = [req EXCEPT ![p] =
             IF r.pc = "ra_tokens" THEN [r EXCEPT !.pc = "ra_requests", !.phase = "lock", !.tokenWait = d]
             ELSE IF r.pc = "wa_tokens" THEN [r EXCEPT !.pc = "wa_requests", !.phase = "lock", !.tokenWait = d]
             ELSE IF r.pc = "ra_requests"
                  THEN [Finish(r, "rate_limit") EXCEPT !.retryAfter = waitDuration, !.tokenWait = 0]
             ELSE AfterWaitEstimate([r EXCEPT !.tokenWait = 0], waitDuration, now, ctxDone)]
       /\ UNCHANGED <<now, bucketVars, limiterVars, heap, mu, granted, registryVars, backendCalls>>

\* the caller's context is cancelled or its deadline passes while the request
\* is asleep in WaitAndConsume's select: it wakes up with ctx.Err()
CtxDone(p) ==
    LET r == req[p]
    IN /\ r.pc = "sleep"
       /\ req' = [req EXCEPT ![p] =
             LeaveCheckRateLimit([r EXCEPT !.cancelledAsleep = TRUE, !.wakeAt = 0], "ctx")]
       /\ UNCHANGED <<now, bucketVars, limiterVars, heap, mu, granted, registryVars, backendCalls>>

\* WaitAndConsume's timer fires, no earlier than waitDuration after it was set
TimerFires(p) ==
    LET r == req[p]
    IN /\ r.pc = "sleep"
       /\ now >= r.wakeAt
       /\ req' = [req EXCEPT ![p] = [r EXCEPT !.pc = "cp_tokens", !.phase = "lock", !.wakeAt = 0]]
       /\ UNCHANGED <<now, bucketVars, limiterVars, heap, mu, granted, registryVars, backendCalls>>

ConfigCopy_Aliased(config, actualModelName) ==
    [caller |-> [config EXCEPT !.Model = actualModelName],
     copy |-> [config EXCEPT !.Model = actualModelName]]

\* getGeneratorForConfig: `configCopy := *actualConfig` and
\* `configCopy.Model = Model(mapping.ActualModelName)`: the caller's config
\* afterwards and the copy handed to the backend
ConfigCopy(config, actualModelName) ==
    [caller |-> config, copy |-> [config EXCEPT !.Model = actualModelName]]

\* getGeneratorForConfig: the model resolved again, its mapping, the backend
\* of the mapping's provider, and the call of the backend with the cloned
\* config
ForwardToBackend(p, op) ==
    LET r == req[p]
        model == resolveModel(r.cfgModel, defaultModel)
        mapping == IF model \in DOMAIN modelMappings THEN modelMappings[model] ELSE NoMapping
        gen == MapGet(providers, mapping.Provider)
        c == ConfigCopy([Model |-> r.cfgModel, WaitOnRateLimit |-> r.wait, MaxWaitDuration |-> r.maxWait],
                        mapping.ActualModelName)
    IN /\ r.pc = "getGenerator"
       /\ IF model \notin DOMAIN modelMappings
          THEN /\ req' = [req EXCEPT ![p] = [Finish(r, "model_not_registered") EXCEPT !.routed = model]]
               /\ UNCHANGED backendCalls
          ELSE IF gen = Nil
          THEN /\ req' = [req EXCEPT ![p] = [Finish(r, "provider_not_configured") EXCEPT
                                                 !.routed = model, !.sentProvider = mapping.Provider]]
               /\ UNCHANGED backendCalls
          ELSE /\ req' = [req EXCEPT ![p] = [r EXCEPT !.pc = "backend", !.op = op,
                                                 !.routed = model, !.sentProvider = mapping.Provider,
                                                 !.cfgModel = c.caller.Model, !.wait = c.caller.WaitOnRateLimit,
                                                 !.maxWait = c.caller.MaxWaitDuration,
                                                 !.sent = c.copy]]
               /\ backendCalls' = [backendCalls EXCEPT ![p] = @ + 1]

\* getGeneratorForConfig and the call of the backend with the cloned config
GetGenerator(p, op) ==
    /\ ForwardToBackend(p, op)
    /\ UNCHANGED <<now, bucketVars, limiterVars, heap, mu, granted, registryVars>>

\* the backend's Generate/Edit/EditMultiple returns a result or an error
BackendReturns(p, success) ==
    /\ req[p].pc = "backend"
    /\ req' = [req EXCEPT ![p] = Finish(req[p], IF success THEN "nil" ELSE "backend_error")]
    /\ UNCHANGED <<now, bucketVars, limiterVars, heap, mu, granted, registryVars, backendCalls>>

Range(f) == {f[k] : k \in DOMAIN f}

\* the RateLimiter instances goroutines hold a reference to
Held == {req[p].lim : p \in Procs}

\* a RateLimiter that neither Manager.rateLimiters nor a goroutine points to
\* is garbage: its memory is as if never allocated
Collect(h, live) == [l \in DOMAIN h |-> IF l \in live THEN h[l] ELSE NoLimiter]
CollectGranted(g, live) == [l \in DOMAIN g |-> IF l \in live THEN g[l] ELSE [b \in BucketNames |-> 0]]

\* the caller has the result; the goroutine may call again
Return(p) ==
    LET live == Range(rateLimiters) \cup {req[q].lim : q \in Procs \ {p}}
    IN /\ req[p].pc = "done"
       /\ req' = [req EXCEPT ![p] = IdleReq]
       /\ backendCalls' = [backendCalls EXCEPT ![p] = 0]
       /\ heap' = Collect(heap, live)
       /\ granted' = CollectGranted(granted, live)
       /\ UNCHANGED <<now, bucketVars, limiterVars, mu, registryVars>>

\* time passes
Elapse ==
    /\ now + ClockStep <= MaxTime
    /\ now' = now + ClockStep
    /\ UNCHANGED <<bucketVars, limiterVars, managerVars>>

Next ==
    \/ Elapse
    \/ \E p \in Procs : \E cfgModel \in {"", TestModel} : \E promptLen \in 0..MaxPromptLen :
       \E waitOnRateLimit \in BOOLEAN : \E maxWait \in MaxWaits :
          Dispatch(p, cfgModel, promptLen, waitOnRateLimit, maxWait)
    \/ \E p \in Procs : CheckRateLimit(p)
    \/ \E p \in Procs : ConsumeCompare(p)
    \/ \E p \in Procs : ConsumeReturn(p)
    \/ \E p \in Procs : \E arch \in GoArchs : \E ctxDone \in BOOLEAN : Estimate(p, arch, ctxDone)
    \/ \E p \in Procs : CtxDone(p)
    \/ \E p \in Procs : TimerFires(p)
    \/ \E p \in Procs : \E op \in Ops : GetGenerator(p, op)
    \/ \E p \in Procs : \E success \in BOOLEAN : BackendReturns(p, success)
    \/ \E p \in Procs : Return(p)

Spec == Init /\ [][Next]_vars

\* ---------------------------------------------------------------------------
\* Manager: RegisterModel, SetRateLimiter, SetDefaultModel and Close called
\* while a goroutine dispatches.  Each of the four holds Manager.mu from its
\* first statement to its return, so each is one step.  They read and write
\* the Manager's maps and never a limiter's buckets, and one goroutine
\* dispatches, so here the limiter calls of checkRateLimit are one step with
\* the read of Manager.rateLimiters that precedes them, and the three reads of
\* getGeneratorForConfig (defaultModel, modelMappings, providers) are one step:
\* a configuration call between two of them can be moved before or after the
\* step without changing what either of them reads.  The clock stands still
\* and the goroutine dispatches with WaitOnRateLimit false; dispatches that
\* wait are followed against the clock under Spec.
\* ---------------------------------------------------------------------------

\* the RateLimiter a `ratelimiter.New` allocates: the first instance of the
\* given ones that nothing points to
FirstFree(order, free) ==
    order[CHOOSE i \in 1..Len(order) :
             /\ order[i] \in free
             /\ \A j \in 1..(i - 1) : order[j] \notin free]

\* New(): empty maps, defaultModel ModelDefault
New ==
    [modelMappings |-> EmptyMap, rateLimiters |-> EmptyMap, providers |-> EmptyMap,
     defaultModel |-> ModelDefault,
     heap |-> [l \in RouterLimiterIds |-> NoLimiter]]

\* RegisterModel on the manager m: the mapping is stored, and a limiter is
\* made and stored only when a declared limit is positive.  held: the
\* RateLimiter instances goroutines still point to.
RegisterModelIn(m, model, mapping, tokensPerMinute, requestsPerMinute, t, held) ==
    LET id == FirstFree(SlotsOf(model), RouterLimiterIds \ (Range(m.rateLimiters) \cup held))
    IN IF NeedsLimiter(tokensPerMinute, requestsPerMinute)
       THEN [m EXCEPT !.modelMappings = MapSet(@, model, mapping),
                      !.rateLimiters = MapSet(@, model, id),
                      !.heap = [@ EXCEPT ![id] = NewLimiter(tokensPerMinute, requestsPerMinute, t)]]
       ELSE [m EXCEPT !.modelMappings = MapSet(@, model, mapping)]

\* the loop of NewManager over defaultProvider.Models()
RECURSIVE NewManagerLoop(_, _, _, _, _)
NewManagerLoop(m, defaultProvider, models, i, t) ==
    IF i > Len(models) THEN m
    ELSE LET info == models[i]
             withProvider == [m EXCEPT !.providers = MapSet(@, info.Provider, defaultProvider)]
         IN NewManagerLoop(RegisterModelIn(withProvider, info.Name,
                                           [Provider |-> info.Provider, ActualModelName |-> info.APIModelName],
                                           info.TokensPerMinute, info.RequestsPerMinute, t, {}),
                           defaultProvider, models, i + 1, t)

NewManager(defaultProvider, models, t) == NewManagerLoop(New, defaultProvider, models, 1, t)

ModelInfo(name, provider, apiModelName, limits) ==
    [Name |-> name, Provider |-> provider, APIModelName |-> apiModelName,
     TokensPerMinute |-> limits[1], RequestsPerMinute |-> limits[2]]

\* what Models() of the backend handed to NewManager returns: test-model alone,
\* or test-model and nano-banana-2 under one provider name or under two
ModelLists ==
    {<<ModelInfo(TestModel, TestProvider, TestModelAPI, <<TokenBuffer, 1>>)>>}
    \cup {<<ModelInfo(TestModel, TestProvider, TestModelAPI, <<TokenBuffer, 1>>),
            ModelInfo(ModelNanoBanana2, provider, OtherModelAPI, <<0, 0>>)>> :
              provider \in {TestProvider, OtherProvider}}

InitRouter ==
    /\ now = 0
    /\ tb = NewTokenBucket(0, 0, 0, 0) /\ exhaustedAt = NoTime /\ ret = NoRet
    /\ rl = NoLimiter /\ wac = NoWac /\ lret = NoLRet
    /\ \E models \in ModelLists :
          LET m == NewManager("gen", models, 0)
          IN /\ heap = m.heap
             /\ rateLimiters = m.rateLimiters
             /\ modelMappings = m.modelMappings
             /\ providers = m.providers
             /\ defaultModel = m.defaultModel
             /\ lastMapping = [id \in RouterModels |->
                   IF \E i \in 1..Len(models) : models[i].Name = id
                   THEN LET info == models[CHOOSE i \in 1..Len(models) : models[i].Name = id]
                        IN [Provider |-> info.Provider, ActualModelName |-> info.APIModelName]
                   ELSE NoMapping]
    /\ mu = [l \in RouterLimiterIds |-> [b \in BucketNames |-> NoProc]]
    /\ granted = [l \in RouterLimiterIds |-> [b \in BucketNames |-> 0]]
    /\ req = [p \in Procs |-> IdleReq]
    /\ backendCalls = [p \in Procs |-> 0]
    /\ NoRegistry
    /\ closeCalls = [g \in Gens |-> 0]
    /\ installed = [m \in RouterModels |-> Unknown]
    /\ keptLimiter = [m \in RouterModels |-> FALSE]
    /\ NoConstruct
    /\ NoConversation
    /\ NoLate

\* the heap has room for the RateLimiter a registration of the model makes
RoomForLimiter(model) ==
    \E i \in 1..Len(SlotsOf(model)) : SlotsOf(model)[i] \notin (Range(rateLimiters) \cup Held)

\* The manager's maps and the heap as one value, and back
ThisManager ==
    [modelMappings |-> modelMappings, rateLimiters |-> rateLimiters, providers |-> providers,
     defaultModel |-> defaultModel, heap |-> heap]

\* Addresses carry no meaning: once a call has returned, the limiter in force
\* for the model is kept in the model's first slot unless a goroutine points
\* there, and what nothing points to is collected.
Settle(m, model, held) ==
    LET cur == MapGet(m.rateLimiters, model)
        first == SlotsOf(model)[1]
        moved == IF cur = Nil \/ cur = first \/ first \in held THEN m
                 ELSE [m EXCEPT !.rateLimiters = MapSet(@, model, first),
                                !.heap = [@ EXCEPT ![first] = m.heap[cur], ![cur] = NoLimiter]]
    IN [moved EXCEPT !.heap = Collect(@, Range(moved.rateLimiters) \cup held)]

RegisterModel(model, mapping, tokensPerMinute, requestsPerMinute) ==
    LET before == MapGet(rateLimiters, model)
        after == RegisterModelIn(ThisManager, model, mapping, tokensPerMinute, requestsPerMinute, now, Held)
        m == Settle(after, model, Held)
    IN /\ NeedsLimiter(tokensPerMinute, requestsPerMinute) => RoomForLimiter(model)
       /\ modelMappings' = m.modelMappings
       /\ rateLimiters' = m.rateLimiters
       /\ heap' = m.heap
       /\ installed' = [installed EXCEPT ![model] = Unknown]
       /\ keptLimiter' = [keptLimiter EXCEPT ![model] =
                              /\ model \in DOMAIN modelMappings
                              /\ before # Nil
                              /\ MapGet(after.rateLimiters, model) = before]
       /\ lastMapping' = [lastMapping EXCEPT ![model] = mapping]
       /\ UNCHANGED <<now, bucketVars, limiterVars, mu, granted, providers, defaultModel, req, backendCalls,
                      mapRegistryVars, closeCalls, extVars>>

SetRateLimiterIn_OnlyRegistered(m, model, limiter) ==
    IF model \in DOMAIN m.modelMappings THEN [m EXCEPT !.rateLimiters = MapSet(@, model, limiter)] ELSE m

SetRateLimiterIn_InPlace(m, model, limiter) ==
    LET old == MapGet(m.rateLimiters, model)
    IN IF old = Nil \/ limiter = Nil THEN [m EXCEPT !.rateLimiters = MapSet(@, model, limiter)]
       ELSE [m EXCEPT !.heap = [@ EXCEPT ![old] = m.heap[limiter]]]

\* SetRateLimiter on the manager m
SetRateLimiterIn(m, model, limiter) ==
    [m EXCEPT !.rateLimiters = MapSet(@, model, limiter)]

\* SetRateLimiter(model, limiter) with a limiter the caller has just made with
\* ratelimiter.New(limits), or with nil
SetRateLimiter(model, limits, isNil) ==
    LET id == FirstFree(SlotsOf(model), RouterLimiterIds \ (Range(rateLimiters) \cup Held))
        made == IF isNil THEN ThisManager
                ELSE [ThisManager EXCEPT !.heap = [@ EXCEPT ![id] = NewLimiter(limits[1], limits[2], now)]]
        after == SetRateLimiterIn(made, model, IF isNil THEN Nil ELSE id)
        m == Settle(after, model, Held)
    IN /\ ~isNil => RoomForLimiter(model)
       /\ rateLimiters' = m.rateLimiters
       /\ heap' = m.heap
       /\ installed' = [installed EXCEPT ![model] = IF isNil THEN Nil ELSE SlotsOf(model)[1]]
       /\ keptLimiter' = [keptLimiter EXCEPT ![model] = FALSE]
       /\ granted' = CollectGranted(granted, (Range(m.rateLimiters) \cup Held) \ {MapGet(m.rateLimiters, model)})
       /\ UNCHANGED <<now, bucketVars, limiterVars, mu, modelMappings, providers, defaultModel,
                      req, backendCalls, mapRegistryVars, closeCalls, lastMapping, extVars>>

SetDefaultModel(model) ==
    /\ defaultModel' = model
    /\ UNCHANGED <<now, bucketVars, limiterVars, heap, mu, granted, rateLimiters, modelMappings,
                   providers, req, backendCalls, mapRegistryVars, routerObs, extVars>>

\* the orders in which a range over a map with these keys can yield them
RECURSIVE Orders(_)
Orders(keys) ==
    IF keys = {} THEN {<<>>}
    ELSE UNION {{<<k>> \o rest : rest \in Orders(keys \ {k})} : k \in keys}

RECURSIVE CloseLoop_StopsAtFirst(_, _, _, _)
CloseLoop_StopsAtFirst(entries, i, failing, acc) ==
    IF i > Len(entries) THEN acc
    ELSE IF entries[i] \in failing
    THEN [called |-> Append(acc.called, entries[i]), errs |-> Append(acc.errs, entries[i])]
    ELSE CloseLoop_StopsAtFirst(entries, i + 1, failing,
                                [called |-> Append(acc.called, entries[i]), errs |-> acc.errs])

\* the loop of Close over m.providers: gen.Close() for the entry at i and the
\* entries after it, the failures appended to errs.  failing: the entries
\* whose Close() returns an error.
RECURSIVE CloseLoop(_, _, _, _)
CloseLoop(entries, i, failing, acc) ==
    IF i > Len(entries) THEN acc
    ELSE CloseLoop(entries, i + 1, failing,
                   [called |-> Append(acc.called, entries[i]),
                    errs |-> IF entries[i] \in failing THEN Append(acc.errs, entries[i]) ELSE acc.errs])

\* Manager.Close on the map held: the Close() calls made, the failures
\* collected, the error returned (errors.Join of the failures, nil if none)
\* and the empty map that replaces m.providers
ManagerClose(held, entries, failing) ==
    LET r == CloseLoop(entries, 1, failing, [called |-> <<>>, errs |-> <<>>])
    IN [op |-> "Close", held |-> held, called |-> r.called, errs |-> r.errs,
        err |-> IF Len(r.errs) > 0 THEN "joined" ELSE "nil",
        providers |-> EmptyMap]

\* what a Close that returned r did to the manager and to the backends
CloseEffect(r) ==
    /\ closeCalls' = [g \in Gens |->
                         closeCalls[g] + Cardinality({i \in 1..Len(r.called) : r.held[r.called[i]] = g})]
    /\ providers' = r.providers

\* Close with backends whose Close() succeeds
Close ==
    /\ \E entries \in Orders(DOMAIN providers) : CloseEffect(ManagerClose(providers, entries, {}))
    /\ UNCHANGED <<now, bucketVars, limiterVars, heap, mu, granted, rateLimiters, modelMappings,
                   defaultModel, req, backendCalls, mapRegistryVars, installed, keptLimiter, lastMapping,
                   extVars>>

\* Close seen from its caller: the range yields the entries in some order and
\* the Close() of the entries in failing returns an error
CloseReturns(entries, failing) ==
    LET r == ManagerClose(providers, entries, failing)
    IN /\ entries \in Orders(DOMAIN providers)
       /\ CloseEffect(r)
       /\ failing \subseteq DOMAIN providers
       /\ closeRet' = [op |-> r.op, held |-> r.held, failing |-> failing,
                       called |-> r.called, errs |-> r.errs, err |-> r.err]
       /\ UNCHANGED <<now, bucketVars, limiterVars, heap, mu, granted, rateLimiters, modelMappings,
                      defaultModel, req, backendCalls, mapRegistryVars, installed, keptLimiter, lastMapping,
                      built, convVars, lateVars>>

\* checkRateLimit from the read of m.rateLimiters to its return, or to the
\* select of WaitAndConsume when that has to sleep
checkRateLimit(p, arch, ctxDone) ==
    LET r == req[p]
        limiter == MapGet(rateLimiters, r.model)
        estimatedTokens == EstimateTokens(r.promptLen) + TokenBuffer
        l == heap[limiter]
        waitDuration == RateLimiterTimeUntilAvailable(l, now, estimatedTokens, arch)
        c == IF r.wait THEN ConsumeAfterWait(l, now, estimatedTokens)
             ELSE [rl |-> RateLimiterTryConsume(l, now, estimatedTokens).rl,
                   err |-> IF RateLimiterTryConsume(l, now, estimatedTokens).ok THEN "nil" ELSE "rate_limit"]
        held == [r EXCEPT !.lim = limiter, !.n = estimatedTokens]
        r1 == [r EXCEPT !.n = estimatedTokens]
        r2 == [r1 EXCEPT !.tookTokens = ConsumeRefill(l.tokens, now).remaining - c.rl.tokens.remaining,
                         !.tookRequests = ConsumeRefill(l.requests, now).remaining - c.rl.requests.remaining,
                         !.retryAfter = IF c.err = "rate_limit"
                                        THEN RateLimiterTimeUntilAvailable(c.rl, now, estimatedTokens, arch)
                                        ELSE 0]
    IN /\ r.pc = "checkRateLimit"
       /\ IF limiter = Nil
          THEN /\ req' = [req EXCEPT ![p] = [r EXCEPT !.pc = "getGenerator"]]
               /\ UNCHANGED heap
          ELSE IF r.wait /\ waitDuration > 0
          THEN /\ req' = [req EXCEPT ![p] = AfterWaitEstimate(held, waitDuration, now, ctxDone)]
               /\ UNCHANGED heap
          ELSE /\ req' = [req EXCEPT ![p] = LeaveCheckRateLimit(r2, c.err)]
               /\ heap' = [heap EXCEPT ![limiter] = c.rl]
       /\ UNCHANGED <<now, bucketVars, limiterVars, mu, granted, registryVars, backendCalls>>

\* validation.go
MaxImageSize == 20 * 1024 * 1024
MaxInputImages == 14
ValidMIMETypes == {"image/jpeg", "image/png", "image/webp", "image/gif"}

ValidatePrompt(promptLen) == IF promptLen = 0 THEN "ErrEmptyPrompt" ELSE "nil"

ValidateInputImage(img) ==
    IF img.DataLen = 0 /\ img.URI = "" THEN "ErrEmptyImageData"
    ELSE IF img.DataLen > 0 /\ img.DataLen > MaxImageSize THEN "ErrImageTooLarge"
    ELSE IF img.DataLen > 0 /\ img.MIMEType = "" THEN "ErrInvalidMIMEType"
    ELSE IF img.DataLen > 0 /\ img.MIMEType \notin ValidMIMETypes THEN "ErrInvalidMIMEType"
    ELSE "nil"

\* the first image of the slice that does not validate, 0 if all do
FirstInvalid(images) ==
    IF \A i \in 1..Len(images) : ValidateInputImage(images[i]) = "nil" THEN 0
    ELSE CHOOSE i \in 1..Len(images) :
            /\ ValidateInputImage(images[i]) # "nil"
            /\ \A j \in 1..(i - 1) : ValidateInputImage(images[j]) = "nil"

ValidateInputImages(images) ==
    IF Len(images) = 0 THEN "ErrEmptyImageData"
    ELSE IF Len(images) > MaxInputImages THEN "ErrTooManyImages"
    ELSE IF FirstInvalid(images) # 0 THEN ValidateInputImage(images[FirstInvalid(images)])
    ELSE "nil"

ValidationErrors == {"ErrEmptyPrompt", "ErrEmptyImageData", "ErrInvalidMIMEType", "ErrImageTooLarge",
                     "ErrTooManyImages"}

\* the input images callers pass: none, a good one, one too large, one of an
\* unsupported type, one without a type, one given by URI
InputImages ==
    {[DataLen |-> 0, URI |-> "", MIMEType |-> ""],
     [DataLen |-> 1, URI |-> "", MIMEType |-> "image/png"],
     [DataLen |-> MaxImageSize + 1, URI |-> "", MIMEType |-> "image/png"],
     [DataLen |-> 1, URI |-> "", MIMEType |-> "image/bmp"],
     [DataLen |-> 1, URI |-> "", MIMEType |-> ""],
     [DataLen |-> 0, URI |-> "gs://bucket/image", MIMEType |-> ""]}

\* lengths of the slices passed to EditMultiple
ImageCounts == {0, 1, MaxInputImages + 1}

\* what GeminiGenerator.Generate / Edit / EditMultiple check before they call
\* the API
GeminiValidate(op, promptLen, image, images) ==
    IF ValidatePrompt(promptLen) # "nil" THEN ValidatePrompt(promptLen)
    ELSE IF op = "Edit" THEN ValidateInputImage(image)
    ELSE IF op = "EditMultiple" THEN ValidateInputImages(images)
    ELSE "nil"

\* the backend's method runs to its return: a validation error, or the
\* outcome of the API call
GeminiReturns(p, image, images, success) ==
    LET r == req[p]
        invalid == GeminiValidate(r.op, r.promptLen, image, images)
    IN /\ r.pc = "backend"
       /\ req' = [req EXCEPT ![p] =
                    Finish(r, IF invalid # "nil" THEN invalid
                              ELSE IF success THEN "nil" ELSE "backend_error")]
       /\ UNCHANGED <<now, bucketVars, limiterVars, heap, mu, granted, registryVars, backendCalls>>

NextRouter ==
    \/ \E mapping \in RouterMappings : \E limits \in RouterLimits :
          RegisterModel(TestModel, mapping, limits[1], limits[2])
    \/ \E model \in RouterModels : \E isNil \in BOOLEAN :
          SetRateLimiter(model, <<TokenBuffer, 1>>, isNil)
    \/ \E model \in RouterModels : SetDefaultModel(model)
    \/ Close
    \/ \E p \in RouterProcs : \E cfgModel \in {"", TestModel, ModelNanoBanana2} :
       \E promptLen \in {0, MaxPromptLen} :
          Dispatch(p, cfgModel, promptLen, FALSE, 0)
    \/ \E p \in RouterProcs : \E arch \in GoArchs : \E ctxDone \in BOOLEAN : checkRateLimit(p, arch, ctxDone)
    \/ \E p \in RouterProcs : \E op \in Ops : GetGenerator(p, op)
    \/ \E p \in RouterProcs : \E image \in InputImages : \E count \in ImageCounts : \E success \in BOOLEAN :
          GeminiReturns(p, image, [i \in 1..count |-> image], success)
    \/ \E p \in RouterProcs : Return(p)

SpecRouter == InitRouter /\ [][NextRouter]_vars

(***************************************************************************)
(* The manager as NewManager builds it from a backend and options, used by *)
(* one goroutine and closed.                                               *)
(***************************************************************************)

\* WithDefaultModel(model), applied to the manager NewManager has filled; Nil: no option
WithDefaultModel(m, model) == [m EXCEPT !.defaultModel = model]

NewManagerWith(defaultProvider, models, option, t) ==
    LET m == NewManager(defaultProvider, models, t)
    IN IF option = Nil THEN m ELSE WithDefaultModel(m, option)

\* Models() lists as above, and one whose first model is nano-banana-2
ConstructLists ==
    ModelLists
    \cup {<<ModelInfo(ModelNanoBanana2, OtherProvider, OtherModelAPI, <<0, 0>>),
             ModelInfo(TestModel, TestProvider, TestModelAPI, <<TokenBuffer, 1>>)>>}

InitConstruct ==
    /\ now = 0
    /\ tb = NewTokenBucket(0, 0, 0, 0) /\ exhaustedAt = NoTime /\ ret = NoRet
    /\ rl = NoLimiter /\ wac = NoWac /\ lret = NoLRet
    /\ \E models \in ConstructLists : \E option \in {Nil} \cup RouterModels :
          LET m == NewManagerWith("gen", models, option, 0)
          IN /\ heap = m.heap
             /\ rateLimiters = m.rateLimiters
             /\ modelMappings = m.modelMappings
             /\ providers = m.providers
             /\ defaultModel = m.defaultModel
             /\ lastMapping = [id \in RouterModels |->
                   IF \E i \in 1..Len(models) : models[i].Name = id
                   THEN LET info == models[CHOOSE i \in 1..Len(models) : models[i].Name = id]
                        IN [Provider |-> info.Provider, ActualModelName |-> info.APIModelName]
                   ELSE NoMapping]
             /\ built = [models |-> models, option |-> option]
    /\ mu = [l \in RouterLimiterIds |-> [b \in BucketNames |-> NoProc]]
    /\ granted = [l \in RouterLimiterIds |-> [b \in BucketNames |-> 0]]
    /\ req = [p \in Procs |-> IdleReq]
    /\ backendCalls = [p \in Procs |-> 0]
    /\ NoRegistry
    /\ closeCalls = [g \in Gens |-> 0]
    /\ installed = [m \in RouterModels |-> Unknown]
    /\ keptLimiter = [m \in RouterModels |-> FALSE]
    /\ closeRet = NoCloseRet
    /\ NoConversation
    /\ NoLate

NextConstruct ==
    \/ \E p \in RouterProcs : \E cfgModel \in {"", TestModel, ModelNanoBanana2} :
       \E promptLen \in {0, MaxPromptLen} : Dispatch(p, cfgModel, promptLen, FALSE, 0)
    \/ \E p \in RouterProcs : \E arch \in GoArchs : \E ctxDone \in BOOLEAN : checkRateLimit(p, arch, ctxDone)
    \/ \E p \in RouterProcs : \E op \in Ops : GetGenerator(p, op)
    \/ \E p \in RouterProcs : \E image \in InputImages : \E count \in ImageCounts : \E success \in BOOLEAN :
          GeminiReturns(p, image, [i \in 1..count |-> image], success)
    \/ \E p \in RouterProcs : Return(p)
    \/ \E entries \in Orders(DOMAIN providers) : \E failing \in SUBSET DOMAIN providers :
          CloseReturns(entries, failing)

SpecConstruct == InitConstruct /\ [][NextConstruct]_vars

\* C29: a router that NewManager built without a default-model option sends a
\* request naming no model to the first model of the backend's Models() list
C29_DefaultIsFirstListedModel ==
    \A p \in RouterProcs :
        (/\ req[p].pc \in {"backend", "done"}
         /\ req[p].routed # IdleReq.routed
         /\ req[p].givenModel = ""
         /\ built.option = Nil
         /\ Len(built.models) > 0)
        => req[p].routed = built.models[1].Name

\* C21: Close has called Close() on every entry of the providers map it found,
\* the failures it returns are exactly the failures of those calls, and it
\* returns nil only when no call failed
C21_CloseTriesAllAndJoinsErrors ==
    closeRet.op = "Close" =>
        /\ {closeRet.called[i] : i \in 1..Len(closeRet.called)} = DOMAIN closeRet.held
        /\ Len(closeRet.called) = Cardinality(DOMAIN closeRet.held)
        /\ {closeRet.errs[i] : i \in 1..Len(closeRet.errs)} = closeRet.failing
        /\ Len(closeRet.errs) = Cardinality(closeRet.failing)
        /\ (closeRet.err = "nil") <=> (closeRet.failing = {})
        /\ providers = EmptyMap

\* a Close over two entries whose first Close() failed and whose second succeeded
C21_Witness ==
    /\ closeRet.op = "Close"
    /\ Len(closeRet.called) = 2
    /\ closeRet.called[1] \in closeRet.failing
    /\ closeRet.called[2] \notin closeRet.failing
    /\ closeRet.err = "joined"

\* ---------------------------------------------------------------------------
\* Properties of one TokenBucket (checked under SpecBucket).  While ret.op is
\* not "none", `now` is the instant of the call, ret.pre is the bucket the call
\* found and tb is the bucket it left.
\* ---------------------------------------------------------------------------

\* C2: TryConsume(n) on a full bucket with n <= capacity returns true and leaves
\* remaining = capacity - n; TryConsume(capacity + 1) on a full bucket returns
\* false and leaves remaining = capacity; a rejected TryConsume leaves remaining
\* unchanged apart from a due full refill.
C2_TryConsumeOnFullBucket ==
    ret.op = "TryConsume" =>
        /\ (ret.pre.remaining = ret.pre.capacity /\ ret.n <= ret.pre.capacity)
               => (ret.ok /\ tb.remaining = ret.pre.capacity - ret.n)
        /\ (ret.pre.remaining = ret.pre.capacity /\ ret.n = ret.pre.capacity + 1)
               => (~ret.ok /\ tb.remaining = ret.pre.capacity)
        /\ ~ret.ok => tb.remaining = (IF now - ret.pre.lastRefill >= ret.pre.refillInterval
                                      THEN ret.pre.capacity ELSE ret.pre.remaining)
        /\ tb.capacity = ret.pre.capacity

C2_Witness ==
    /\ ret.op = "TryConsume" /\ ret.ok
    /\ ret.pre.remaining = ret.pre.capacity
    /\ ret.n = 1 /\ ret.pre.capacity = 2 /\ tb.remaining = 1

\* C3: a TryConsume(capacity) issued a full refill interval or more after the
\* bucket was exhausted, with no successful consume in between, returns true.
C3_ExhaustedBucketAcceptsAfterInterval ==
    (/\ ret.op = "TryConsume"
     /\ ret.n = tb.capacity
     /\ exhaustedAt # NoTime
     /\ now >= exhaustedAt + tb.refillInterval) => ret.ok

\* C6: TimeUntilAvailable(n) is 0 if TryConsume(n) would succeed at that
\* instant and strictly positive if it would fail, and does not shrink when
\* more is asked.
C6_TimeUntilAvailableMatchesTryConsume ==
    ret.op = "TimeUntilAvailable" =>
        /\ TokenBucketTryConsume(ret.pre, now, ret.n).ok => ret.dur = 0
        /\ ~TokenBucketTryConsume(ret.pre, now, ret.n).ok => ret.dur > 0
        /\ \A arch \in GoArchs : ret.dur <= TokenBucketTimeUntilAvailable(ret.pre, now, ret.n + 1, arch)

\* C10: HasCapacity(n) returns what TryConsume(n) would return at the same
\* instant, a due full refill counted, and leaves remaining and lastRefill as
\* they were.
C10_HasCapacityReadOnly ==
    ret.op = "HasCapacity" =>
        /\ ret.ok = TokenBucketTryConsume(ret.pre, now, ret.n).ok
        /\ tb = ret.pre

C10_Witness ==
    /\ ret.op = "HasCapacity" /\ ret.ok
    /\ ret.n > ret.pre.remaining
    /\ now - ret.pre.lastRefill >= ret.pre.refillInterval
    /\ tb.remaining = ret.pre.remaining /\ tb.lastRefill = ret.pre.lastRefill

\* C36: Wait(n) returns the duration TimeUntilAvailable(n) returns from the
\* same bucket at the same instant, and leaves remaining = capacity when a
\* full interval has elapsed, min(capacity, remaining + floor(capacity *
\* elapsed / interval)) otherwise, and lastRefill = now whenever time has
\* elapsed; TimeUntilAvailable leaves the bucket as it was.
C36_WaitCommitsWhatTimeUntilAvailableReads ==
    /\ ret.op = "Wait" =>
          LET elapsed == now - ret.pre.lastRefill
          IN /\ \E arch \in GoArchs :
                   /\ ret.dur = TokenBucketWait(ret.pre, now, ret.n, arch).dur
                   /\ ret.dur = TokenBucketTimeUntilAvailable(ret.pre, now, ret.n, arch)
             /\ \A arch \in GoArchs :
                   TokenBucketWait(ret.pre, now, ret.n, arch).dur
                      = TokenBucketTimeUntilAvailable(ret.pre, now, ret.n, arch)
             /\ tb.remaining =
                   IF elapsed >= ret.pre.refillInterval THEN ret.pre.capacity
                   ELSE Min(ret.pre.capacity,
                            ret.pre.remaining + ((ret.pre.capacity * elapsed) \div ret.pre.refillInterval))
             /\ elapsed > 0 => tb.lastRefill = now
             /\ elapsed = 0 => tb.lastRefill = ret.pre.lastRefill
             /\ tb.capacity = ret.pre.capacity /\ tb.refillInterval = ret.pre.refillInterval
    /\ ret.op = "TimeUntilAvailable" => tb = ret.pre

\* a Wait half an interval after an empty bucket of capacity 2 was made: one
\* unit is committed, and the wait for the second is the one
\* TimeUntilAvailable gives
C36_Witness ==
    /\ ret.op = "Wait" /\ ret.n = 2
    /\ ret.pre.capacity = 2 /\ ret.pre.remaining = 0
    /\ now - ret.pre.lastRefill > 0 /\ now - ret.pre.lastRefill < ret.pre.refillInterval
    /\ tb.remaining = 1 /\ tb.lastRefill = now
    /\ ret.dur > 0

\* C38: whatever HasCapacity, TryConsume, TimeUntilAvailable and Wait calls
\* were made on a bucket created with 0 <= initial <= capacity, remaining
\* stays within 0..capacity, and lastRefill never moves backwards
C38_RemainingWithinCapacity ==
    /\ [](0 <= tb.remaining /\ tb.remaining <= tb.capacity)
    /\ [][tb'.lastRefill >= tb.lastRefill]_vars

\* a partial refill by Wait that the capacity cut short
C38_Witness ==
    /\ ret.op = "Wait"
    /\ now - ret.pre.lastRefill < ret.pre.refillInterval
    /\ ret.pre.remaining + ReplenishedTokens(ret.pre, now) > ret.pre.capacity
    /\ tb.remaining = tb.capacity /\ tb.lastRefill = now

\* ---------------------------------------------------------------------------
\* Properties of one RateLimiter (checked under SpecLimiter).  While lret.op is
\* not "none", `now` is the instant the call returned, lret.start the instant
\* it was made, lret.pre the limiter it found and rl the limiter it left.
\* ---------------------------------------------------------------------------

\* C4: composite TryConsume(n) returns true exactly when the tokens bucket
\* accepts n and the requests bucket accepts 1 at that instant (a due full
\* refill counted); on success tokens remaining goes down by n and requests
\* remaining by exactly 1.
C4_CompositeTryConsume ==
    lret.op = "TryConsume" =>
        LET availTokens == IF now - lret.pre.tokens.lastRefill >= lret.pre.tokens.refillInterval
                           THEN lret.pre.tokens.capacity ELSE lret.pre.tokens.remaining
            availRequests == IF now - lret.pre.requests.lastRefill >= lret.pre.requests.refillInterval
                             THEN lret.pre.requests.capacity ELSE lret.pre.requests.remaining
        IN /\ lret.ok = (lret.n <= availTokens /\ 1 <= availRequests)
           /\ lret.ok => /\ rl.tokens.remaining = availTokens - lret.n
                         /\ rl.requests.remaining = availRequests - 1

C4_Witness ==
    /\ lret.op = "TryConsume" /\ lret.ok
    /\ lret.n = lret.pre.tokens.capacity /\ lret.n = 2
    /\ rl.tokens.remaining = 0
    /\ lret.pre.requests.remaining = 2 /\ rl.requests.remaining = 1

C7_WaitAndConsumeSucceeds ==
    (/\ lret.op = "WaitAndConsume"
     /\ lret.maxWait = 0
     /\ lret.err # "ctx"
     /\ lret.n <= lret.pre.tokens.capacity
     /\ lret.pre.requests.capacity >= 1)
    => /\ lret.err = "nil"
       /\ now - lret.start >= lret.dur
       /\ rl.tokens.remaining = ConsumeRefill(lret.pre.tokens, now).remaining - lret.n
       /\ rl.requests.remaining = ConsumeRefill(lret.pre.requests, now).remaining - 1

\* C8: WaitAndConsume with maxWait > 0 smaller than the wait computed by
\* TimeUntilAvailable returns a wait-exceeded error at once: no time passes in
\* the call and both buckets are as they were.
C8_WaitExceededFailsImmediately ==
    (/\ lret.op = "WaitAndConsume"
     /\ lret.maxWait > 0
     /\ \E arch \in GoArchs :
           RateLimiterTimeUntilAvailable(lret.pre, lret.start, lret.n, arch) > lret.maxWait)
    => /\ lret.err # "nil"
       /\ (lret.dur > lret.maxWait => lret.err = "wait_exceeded" /\ now = lret.start /\ rl = lret.pre)

C8_Witness ==
    /\ lret.op = "WaitAndConsume" /\ lret.err = "wait_exceeded"
    /\ lret.maxWait > 0 /\ lret.dur > lret.maxWait /\ lret.dur < InfWaitAmd64
    /\ now = lret.start /\ rl = lret.pre

\* ---------------------------------------------------------------------------
\* Properties of the Manager's dispatch (checked under Spec)
\* ---------------------------------------------------------------------------

\* C1: for any interleaving of concurrent dispatches on one limiter, the check
\* and the decrement of a bucket are one critical section: no two goroutines
\* are between the comparison and the decrement of the same bucket, a bucket's
\* remaining amount is never below zero, and what Consume has handed out since
\* the last refill plus what remains is the capacity, so that one remaining
\* unit is handed to at most one of two concurrent consumes.
C1_ConsumeIsCriticalSection ==
    /\ \A l \in LimiterIds : \A b \in BucketNames :
          /\ heap[l][b].remaining >= 0
          /\ heap[l][b].remaining + granted[l][b] = heap[l][b].capacity
    /\ \A p, q \in Procs :
          (/\ p # q
           /\ req[p].pc \in ConsumePcs /\ req[p].phase = "take"
           /\ req[q].pc \in ConsumePcs /\ req[q].phase = "take"
           /\ req[p].lim = req[q].lim)
          => BucketOf(req[p].pc) # BucketOf(req[q].pc)

C1_Witness ==
    \E p, q \in Procs :
        /\ p # q
        /\ req[p].pc = "tc_requests" /\ req[p].phase = "take" /\ req[p].ok
        /\ heap[req[p].lim]["requests"].remaining = 1
        /\ now - heap[req[p].lim]["requests"].lastRefill < RefillInterval
        /\ req[q].pc = "tc_requests" /\ req[q].phase = "lock" /\ req[q].lim = req[p].lim

\* C9: when the caller's context is cancelled or its deadline passes while
\* WaitAndConsume sleeps, the dispatch returns the context's error, the request
\* has decremented neither bucket, and no backend was called for it.
C9_CancelDuringSleep ==
    \A p \in Procs :
        req[p].cancelledAsleep =>
            /\ req[p].pc = "done"
            /\ req[p].err = "ctx"
            /\ req[p].tookTokens = 0 /\ req[p].tookRequests = 0
            /\ backendCalls[p] = 0

C9_Witness ==
    \E p \in Procs :
        /\ req[p].cancelledAsleep /\ req[p].pc = "done" /\ req[p].err = "ctx"
        /\ req[p].wait /\ req[p].lim = "L1"

\* ---------------------------------------------------------------------------
\* Properties of the rate limiter registry (checked under SpecRegistry)
\* ---------------------------------------------------------------------------

\* C11: after any sequence of Set calls, Get(id) returns the limiter of the
\* most recent Set for id with no error, and a not-found error with no limiter
\* if id was never Set; a Set for one identifier leaves what Get returns for
\* every other identifier as it was.
C11_GetReturnsLatestSet ==
    /\ \A id \in RegistryIds :
          rateLimiterMapRegistryGet(registry, id) =
              IF lastSet[id].cur = Unset
              THEN [limiter |-> Nil, err |-> "not_found"]
              ELSE [limiter |-> lastSet[id].cur, err |-> "nil"]
    /\ gret.op = "Get" =>
          IF lastSet[gret.model].cur = Unset
          THEN gret.err = "not_found" /\ gret.limiter = Nil
          ELSE gret.err = "nil" /\ gret.limiter = lastSet[gret.model].cur

C11_Witness ==
    /\ gret.op = "Get" /\ gret.err = "nil" /\ gret.model = "test-model"
    /\ gret.limiter = "L2" /\ lastSet["test-model"].prev = "L1"
    /\ lastSet["nano-banana-2"].cur = "L1"
    /\ lastSet["non-existent"].cur = Unset
    /\ rateLimiterMapRegistryGet(registry, "non-existent").err = "not_found"

\* ---------------------------------------------------------------------------
\* Properties of the Manager under reconfiguration (checked under SpecRouter)
\* ---------------------------------------------------------------------------

\* the step in which goroutine p leaves getGeneratorForConfig with a backend
\* and forwards to it
Forwards(p) == req[p].pc = "getGenerator" /\ req'[p].pc = "backend"

\* C12: once a model has been registered again with another mapping, every
\* dispatch that looks the model up afterwards is forwarded to the backend
\* identifier and with the backend-native model name of the latest
\* registration, and to nothing of the earlier one.
C12_LatestMappingIsUsed ==
    [][\A p \in RouterProcs :
          Forwards(p) =>
             LET latest == lastMapping[req'[p].routed]
             IN /\ latest # NoMapping
                /\ req'[p].sentProvider = latest.Provider
                /\ req'[p].sent.Model = latest.ActualModelName]_vars

C12_Witness ==
    /\ lastMapping[TestModel] = MappingB
    /\ MappingB.Provider # TestProvider /\ MappingB.ActualModelName # TestModelAPI
    /\ req["p1"].pc = "backend" /\ req["p1"].routed = TestModel
    /\ req["p1"].sentProvider = OtherProvider /\ req["p1"].sent.Model = OtherModelAPI

\* C13: registering a model again overwrites its limiter: after the second
\* RegisterModel no limiter of the earlier registration, derived from its
\* limits or installed by SetRateLimiter, is in force for the model, whatever
\* limits the new registration declares.
C13_ReRegistrationReplacesLimiter ==
    \A model \in RouterModels :
       ~(keptLimiter[model] /\ MapGet(rateLimiters, model) # Nil)

\* the step in which goroutine p runs checkRateLimit for a model whose limiter
\* SetRateLimiter installed, no SetRateLimiter or RegisterModel for the model
\* since
ChecksInstalled(p) ==
    /\ req[p].pc = "checkRateLimit" /\ req'[p].pc # "checkRateLimit"
    /\ installed[req[p].model] # Unknown

\* C14: after SetRateLimiter(m, L), with m registered or not, a dispatch for m
\* whose limiter check starts afterwards is charged against L and against no
\* other limiter, until a later SetRateLimiter or RegisterModel for m; the
\* limiters of the other models are as they were.
C14_InstalledLimiterIsCharged ==
    /\ [][\A p \in RouterProcs :
             ChecksInstalled(p) =>
                LET L == installed[req[p].model]
                    estimatedTokens == EstimateTokens(req[p].promptLen) + TokenBuffer
                IN /\ \A l \in RouterLimiterIds \ {L} : heap'[l] = heap[l]
                   /\ L = Nil => req'[p].pc = "getGenerator"
                   /\ L # Nil =>
                         /\ MapGet(rateLimiters, req[p].model) = L
                         /\ heap'[L] = RateLimiterTryConsume(heap[L], now, estimatedTokens).rl
                         /\ heap'[L].tokens.remaining = heap[L].tokens.remaining - req'[p].tookTokens
                         /\ (req'[p].pc = "getGenerator") = RateLimiterTryConsume(heap[L], now, estimatedTokens).ok]_vars
    /\ [][\A model \in RouterModels :
             installed'[model] # installed[model] =>
                \A other \in RouterModels \ {model} :
                   /\ MapGet(rateLimiters', other) = MapGet(rateLimiters, other)
                   /\ MapGet(rateLimiters, other) # Nil =>
                         heap'[MapGet(rateLimiters, other)] = heap[MapGet(rateLimiters, other)]]_vars

\* a limiter installed for a model that is not registered has been charged,
\* while the limiter of the other model is full
C14_Witness ==
    /\ ModelNanoBanana2 \notin DOMAIN modelMappings
    /\ installed[ModelNanoBanana2] = "L4" /\ rateLimiters[ModelNanoBanana2] = "L4"
    /\ req["p1"].pc = "getGenerator" /\ req["p1"].model = ModelNanoBanana2
    /\ req["p1"].tookTokens = TokenBuffer /\ req["p1"].tookRequests = 1
    /\ heap["L4"].tokens.remaining = 0
    /\ installed[TestModel] = "L1"
    /\ heap["L1"].tokens.remaining = heap["L1"].tokens.capacity

\* C15: for every Generate, Edit and EditMultiple call the resolved model is
\* the config's model whenever that is set, whatever its value, and the
\* configured default model otherwise (an absent config included); so it is
\* where Generate resolves it and where getGeneratorForConfig does.
C15_ResolvedModel ==
    [][\A p \in RouterProcs :
          /\ (req[p].pc = "idle" /\ req'[p].pc = "checkRateLimit") =>
                req'[p].model = IF req'[p].givenModel # "" THEN req'[p].givenModel ELSE defaultModel
          /\ (req[p].pc = "getGenerator" /\ req'[p].pc # "getGenerator") =>
                req'[p].routed = IF req'[p].givenModel # "" THEN req'[p].givenModel ELSE defaultModel]_vars

\* C17: a call whose resolved model has no mapping fails with a not-registered
\* error that names the model; the mapping lookup being the first step of a
\* dispatch, no backend is called and no limiter is consumed, one installed
\* by SetRateLimiter for the model included.
C17_NotRegisteredTouchesNothing ==
    \A p \in RouterProcs :
       (/\ req[p].pc = "done"
        /\ req[p].model \notin DOMAIN modelMappings
        /\ req[p].model = resolveModel(req[p].cfgModel, defaultModel))
       => /\ req[p].err = "model_not_registered"
          /\ req[p].routed = req[p].model
          /\ backendCalls[p] = 0
          /\ req[p].tookTokens = 0 /\ req[p].tookRequests = 0

\* a request the backend's validation turned down
FailedValidation(r) == r.pc = "done" /\ r.err \in ValidationErrors

\* C18: a request that fails validation (empty prompt; empty, oversized or
\* wrongly typed input image; too many input images) is rejected before any
\* limiter is consumed and before any backend is called.
C18_ValidationBeforeLimiterAndBackend ==
    \A p \in RouterProcs :
       FailedValidation(req[p])
       => /\ req[p].tookTokens = 0 /\ req[p].tookRequests = 0
          /\ backendCalls[p] = 0

\* C19: a dispatch leaves the caller's config as it was given, its model
\* included; the backend receives a copy whose model is the backend-native
\* name of the mapping and whose other fields are those of the caller's.
C19_CallerConfigUntouched ==
    /\ \A p \in RouterProcs :
          req[p].pc # "idle" =>
             /\ req[p].cfgModel = req[p].givenModel
             /\ req[p].sent # NoConfig =>
                   /\ req[p].sent.WaitOnRateLimit = req[p].wait
                   /\ req[p].sent.MaxWaitDuration = req[p].maxWait
    /\ [][\A p \in RouterProcs :
             Forwards(p) =>
                /\ req'[p].sent.Model = modelMappings[req'[p].routed].ActualModelName
                /\ req'[p].cfgModel = req[p].cfgModel
                /\ req'[p].wait = req[p].wait /\ req'[p].maxWait = req[p].maxWait]_vars

C19_Witness ==
    /\ req["p1"].pc = "done" /\ req["p1"].err = "nil" /\ req["p1"].op = "Edit"
    /\ req["p1"].givenModel = TestModel /\ req["p1"].cfgModel = TestModel
    /\ req["p1"].sent.Model = TestModelAPI
    /\ req["p1"].sent.Model # req["p1"].cfgModel

\* C20: Close calls Close() exactly once on every backend instance the
\* manager holds, also when several models are served by one instance and
\* whatever backend identifiers their mappings name.
C20_CloseOncePerBackend ==
    [][\A g \in Gens :
          (g \in Range(providers) /\ providers' = EmptyMap) => closeCalls'[g] = closeCalls[g] + 1]_vars

\* C35: within one Generate/Edit/EditMultiple call the model is resolved to
\* one value: the model whose limiter checkRateLimit looked up is the model
\* whose mapping selects the backend, whatever SetDefaultModel calls come in
\* between
C35_ModelResolvedOnce ==
    \A p \in RouterProcs :
       (req[p].pc \in {"backend", "done"} /\ req[p].routed # IdleReq.routed)
       => req[p].routed = req[p].model

\* ---------------------------------------------------------------------------
\* Properties of a dispatch through checkRateLimit (checked under Spec)
\* ---------------------------------------------------------------------------

\* C16: for a model whose limiter has a full tokens bucket of capacity C and
\* request capacity to spare, a call whose estimate (EstimateTokens of the
\* prompt plus the buffer of 100) exceeds C fails with an error for which
\* IsRateLimitError is true (the RateLimitError of checkRateLimit) and reaches
\* no backend; a call whose estimate is at most C passes the limiter, which
\* is charged the estimate in tokens and 1 in requests.  The buckets were
\* full when the call came if no refill was due yet and they hold now what
\* this call left of their capacity.
C16_EstimateAgainstCapacity ==
    \A p \in Procs :
       LET r == req[p]
           l == heap[r.lim]
       IN (/\ r.pc = "done" /\ r.lim # Nil /\ r.err # "ctx"
           /\ now < RefillInterval
           /\ l.tokens.remaining + r.tookTokens = l.tokens.capacity
           /\ l.requests.remaining + r.tookRequests = l.requests.capacity
           /\ l.requests.capacity >= 1)
          => IF r.n > l.tokens.capacity
             THEN r.err = "rate_limit" /\ backendCalls[p] = 0
             ELSE /\ r.err \in {"nil", "backend_error"}
                  /\ r.tookTokens = r.n /\ r.tookRequests = 1

(***************************************************************************)
(* ManagedConversation: one conversation of a manager that NewManager      *)
(* built, its Send, History and Clear, the caller holding what History()   *)
(* returned, and SetDefaultModel called from another goroutine.            *)
(***************************************************************************)

\* GeminiGenerator implements ConversationalImageGenerator; the backend
\* "gen" implements ImageGenerator only
Conversational(g) == g = "gemini"

\* the bytes a two-word string load returns while the string is being stored
TornModel == "torn"

\* Manager.StartConversation and Manager.StartConversationWithModel
StartConversation == NoConv
StartConversationWithModel(model) == [NoConv EXCEPT !.lockedModel = model, !.modelLocked = TRUE]

\* c.manager.defaultModel read without Manager.mu: the field, or while a
\* SetDefaultModel stores, the old string, the new one or a mix of the two
DefaultReads ==
    IF defaultWrite = Nil THEN {defaultModel} ELSE {defaultModel, defaultWrite, TornModel}

\* "Determine model" of Send
DetermineModel(c, cfgModel, dflt) ==
    IF c.modelLocked THEN c.lockedModel
    ELSE IF cfgModel # Nil /\ cfgModel # "" THEN cfgModel
    ELSE dflt

\* the user turn Send and GeminiConversation.Send build: the images are
\* appended to a new array, each with the Data slice of the input image
UserTurn(prompt, images, array) ==
    [Role |-> "user", Text |-> prompt, Images |-> IF Len(images) > 0 THEN array ELSE NoArray]
UserImages(images) == [i \in 1..Len(images) |-> [Data |-> images[i].Data, MIMEType |-> images[i].MIMEType]]

\* the model turn: the result's text and the result's Images slice itself
ModelTurn(array) == [Role |-> "model", Text |-> "reply", Images |-> array]

ContinuesSession_Never(c, mapping) == FALSE

\* Send continues the backend's conversation it is bound to
ContinuesSession(c, mapping) ==
    c.providerConv # NoSession /\ c.convProvider = mapping.Provider

FallbackOp_AlwaysGenerate(images) == "Generate"

\* the single generation Send falls back to
FallbackOp(images) == IF Len(images) > 0 THEN "EditMultiple" ELSE "Generate"

FallbackTurns_ModelOnly(history, userTurn, modelTurn) == Append(history, modelTurn)

\* "Manually track history"
FallbackTurns(history, userTurn, modelTurn) == Append(Append(history, userTurn), modelTurn)

ClearConv_KeepsBinding(c) == [c EXCEPT !.history = <<>>]

\* the fields Clear assigns
ClearConv(c) == [c EXCEPT !.history = <<>>, !.providerConv = NoSession, !.convProvider = ""]

\* History() of ManagedConversation and of GeminiConversation: make and copy,
\* which copies the turn structs and with them the headers of their slices
HistoryCopy(history) == [i \in 1..Len(history) |-> history[i]]

\* what a history holds, its slices followed into memory
Contents(history, arrs, bts) ==
    [i \in 1..Len(history) |->
        [Role |-> history[i].Role, Text |-> history[i].Text,
         Images |-> IF history[i].Images = NoArray THEN <<>>
                    ELSE [j \in 1..Len(arrs[history[i].Images]) |->
                            [Data |-> bts[arrs[history[i].Images][j].Data],
                             MIMEType |-> arrs[history[i].Images][j].MIMEType]]]]

\* a manager NewManager built from one of the backends, and a conversation
\* started on it, locked to a model or not
InitConversationWith(backends, lists, locks) ==
    /\ now = 0
    /\ tb = NewTokenBucket(0, 0, 0, 0) /\ exhaustedAt = NoTime /\ ret = NoRet
    /\ rl = NoLimiter /\ wac = NoWac /\ lret = NoLRet
    /\ \E backend \in backends : \E models \in lists :
          LET m == NewManager(backend, models, 0)
          IN /\ heap = m.heap
             /\ rateLimiters = m.rateLimiters
             /\ modelMappings = m.modelMappings
             /\ providers = m.providers
             /\ defaultModel = m.defaultModel
             /\ lastMapping = [id \in RouterModels |->
                   IF \E i \in 1..Len(models) : models[i].Name = id
                   THEN LET info == models[CHOOSE i \in 1..Len(models) : models[i].Name = id]
                        IN [Provider |-> info.Provider, ActualModelName |-> info.APIModelName]
                   ELSE NoMapping]
             /\ built = [models |-> models, option |-> Nil]
    /\ mu = [l \in RouterLimiterIds |-> [b \in BucketNames |-> NoProc]]
    /\ granted = [l \in RouterLimiterIds |-> [b \in BucketNames |-> 0]]
    /\ req = [p \in Procs |-> IdleReq]
    /\ backendCalls = [p \in Procs |-> 0]
    /\ NoRegistry
    /\ closeCalls = [g \in Gens |-> 0]
    /\ installed = [m \in RouterModels |-> Unknown]
    /\ keptLimiter = [m \in RouterModels |-> FALSE]
    /\ closeRet = NoCloseRet
    /\ \E locked \in locks :
          conv = IF locked = Nil THEN StartConversation ELSE StartConversationWithModel(locked)
    /\ sessions = NoSessions
    /\ send = IdleSend
    /\ arrays = NoArrays
    /\ bytes = NoBytes
    /\ view = <<>>
    /\ defaultWrite = Nil
    /\ cstats = NoStats
    /\ NoLate

InitConversation == InitConversationWith(Gens, ModelLists, {Nil} \cup RouterModels)

\* what no operation on the conversation touches
convFrame == <<now, bucketVars, limiterVars, heap, mu, granted, rateLimiters, modelMappings, providers,
               req, backendCalls, mapRegistryVars, routerObs, constructVars, lateVars>>

\* the turns a conversation, its bound session and the caller's slice refer to
Turns(c, ss, v) ==
    {c.history[i] : i \in 1..Len(c.history)} \cup {v[i] : i \in 1..Len(v)}
    \cup (IF c.providerConv = NoSession THEN {}
          ELSE {ss[c.providerConv].history[i] : i \in 1..Len(ss[c.providerConv].history)})

\* Memory nothing refers to is as if never allocated: the sessions the
\* conversation is not bound to, the arrays no turn refers to, the bytes no
\* image of a live array and no argument of the Send refers to.
Memory(c, ss, sd, v, arrs, bts) ==
    LET liveArrays == {t.Images : t \in Turns(c, ss, v)} \ {NoArray}
        keptArrays == [a \in DOMAIN arrs |-> IF a \in liveArrays THEN arrs[a] ELSE <<>>]
        liveBytes == UNION {{keptArrays[a][k].Data : k \in 1..Len(keptArrays[a])} : a \in DOMAIN arrs}
                     \cup {sd.images[k].Data : k \in 1..Len(sd.images)}
    IN /\ conv' = c
       /\ sessions' = [x \in DOMAIN ss |-> IF x = c.providerConv THEN ss[x] ELSE [history |-> <<>>]]
       /\ send' = sd
       /\ view' = v
       /\ arrays' = keptArrays
       /\ bytes' = [d \in DOMAIN bts |-> IF d \in liveBytes THEN bts[d] ELSE ""]

ConvMutexFree_Always(holder) == TRUE

\* c.mu.Lock() succeeds when no goroutine holds the conversation's mutex
ConvMutexFree(holder) == holder = NoProc

\* Send from c.mu.Lock() to the model it has determined.  The caller passes
\* the prompt, nimages images of its own and a config (Nil: no config).
ConvSend(prompt, nimages, cfgModel) ==
    LET n == cstats.started + 1
        images == [i \in 1..nimages |-> [Data |-> 2 * n - 1, MIMEType |-> "image/png"]]
    IN /\ send.pc = "idle"
       /\ ConvMutexFree(conv.mu)
       /\ cstats.started < MaxSends
       /\ \E dflt \in DefaultReads :
             Memory([conv EXCEPT !.mu = "send"], sessions,
                    [IdleSend EXCEPT !.pc = "lookup", !.prompt = prompt, !.images = images,
                                     !.cfgModel = cfgModel,
                                     !.model = DetermineModel(conv, cfgModel, dflt)],
                    view, arrays,
                    IF nimages > 0 THEN [bytes EXCEPT ![2 * n - 1] = "in"] ELSE bytes)
       /\ cstats' = [cstats EXCEPT !.started = n]
       /\ UNCHANGED <<convFrame, defaultModel, defaultWrite>>

\* Send from the mapping lookup to the call of the backend: the bound
\* session is continued, or a session is started, or a single generation is
\* made.  GeminiConversation.Send records the user turn before it calls the
\* API.  An error returns from Send, and c.mu is released.
ConvLookup ==
    LET n == cstats.started
        ok == send.model \in DOMAIN modelMappings
        mapping == IF ok THEN modelMappings[send.model] ELSE NoMapping
        gen == MapGet(providers, mapping.Provider)
        userTurn == UserTurn(send.prompt, send.images, 2 * n - 1)
        withUser == IF Len(send.images) > 0
                    THEN [arrays EXCEPT ![2 * n - 1] = UserImages(send.images)] ELSE arrays
        reached(path) == [cstats EXCEPT !.resolved = @ + 1, !.provs = @ \cup {mapping.Provider},
                                        !.created = IF path = "new" THEN @ + 1 ELSE @,
                                        !.continued = IF path = "continue" THEN @ + 1 ELSE @]
    IN /\ send.pc = "lookup"
       /\ defaultWrite = Nil
       /\ IF ~ok
          THEN /\ Memory([conv EXCEPT !.mu = NoProc], sessions,
                         [send EXCEPT !.pc = "done", !.err = "model_not_registered"], view, arrays, bytes)
               /\ UNCHANGED cstats
          ELSE IF ContinuesSession(conv, mapping)
          THEN /\ Memory(conv,
                         [sessions EXCEPT ![conv.providerConv].history = Append(@, userTurn)],
                         [send EXCEPT !.pc = "backend", !.path = "continue", !.op = "Send", !.calls = @ + 1],
                         view, withUser, bytes)
               /\ cstats' = reached("continue")
          ELSE IF gen = Nil
          THEN /\ Memory([conv EXCEPT !.mu = NoProc], sessions,
                         [send EXCEPT !.pc = "done", !.err = "provider_not_configured"], view, arrays, bytes)
               /\ UNCHANGED cstats
          ELSE IF Conversational(gen)
          THEN /\ Memory([conv EXCEPT !.providerConv = n, !.convProvider = mapping.Provider],
                         [sessions EXCEPT ![n].history = <<userTurn>>],
                         [send EXCEPT !.pc = "backend", !.path = "new", !.op = "Send", !.calls = @ + 1],
                         view, withUser, bytes)
               /\ cstats' = reached("new")
          ELSE /\ Memory(conv, sessions,
                         [send EXCEPT !.pc = "backend", !.path = "fallback",
                                      !.op = FallbackOp(send.images), !.calls = @ + 1],
                         view, arrays, bytes)
               /\ cstats' = reached("fallback")
       /\ UNCHANGED <<convFrame, defaultModel, defaultWrite>>

SendFails_TakesSessionHistory(c, ss) ==
    IF c.providerConv = NoSession THEN [c EXCEPT !.mu = NoProc]
    ELSE [c EXCEPT !.mu = NoProc, !.history = HistoryCopy(ss[c.providerConv].history)]

\* `if err != nil { return nil, err }` after the backend's call: the deferred
\* Unlock, and no field of the conversation assigned
SendFails(c, ss) == [c EXCEPT !.mu = NoProc]

\* the backend's call returns and Send with it: on success the history is
\* taken from the session or extended by the two turns
ConvBackendReturns(success) ==
    LET n == cstats.started
        userTurn == UserTurn(send.prompt, send.images, 2 * n - 1)
        modelTurn == ModelTurn(2 * n)
        result == [arrays EXCEPT ![2 * n] = <<[Data |-> 2 * n, MIMEType |-> "image/png"]>>]
        session == Append(sessions[conv.providerConv].history, modelTurn)
        returned == [bytes EXCEPT ![2 * n] = "out"]
    IN /\ send.pc = "backend"
       /\ IF ~success
          THEN /\ Memory(SendFails(conv, sessions), sessions,
                         [send EXCEPT !.pc = "done", !.err = "backend_error"], view, arrays, bytes)
               /\ UNCHANGED cstats
          ELSE /\ cstats' = [cstats EXCEPT !.ok = @ + 1, !.okCalls = @ + 1]
               /\ IF send.path = "fallback"
                  THEN Memory([conv EXCEPT !.mu = NoProc,
                                           !.history = FallbackTurns(@, userTurn, modelTurn)],
                              sessions, [send EXCEPT !.pc = "done", !.err = "nil"], view,
                              [result EXCEPT ![2 * n - 1] =
                                  IF Len(send.images) > 0 THEN UserImages(send.images) ELSE @],
                              returned)
                  ELSE Memory([conv EXCEPT !.mu = NoProc, !.history = HistoryCopy(session)],
                              [sessions EXCEPT ![conv.providerConv].history = session],
                              [send EXCEPT !.pc = "done", !.err = "nil"], view, result, returned)
       /\ UNCHANGED <<convFrame, defaultModel, defaultWrite>>

\* the caller has what Send returned
ConvReturn ==
    /\ send.pc = "done"
    /\ Memory(conv, sessions, IdleSend, view, arrays, bytes)
    /\ UNCHANGED <<convFrame, defaultModel, defaultWrite, cstats>>

\* ManagedConversation.History: the caller gets a copy of the slice
History ==
    /\ send.pc = "idle"
    /\ ConvMutexFree(conv.mu)
    /\ Memory(conv, sessions, send, HistoryCopy(conv.history), arrays, bytes)
    /\ UNCHANGED <<convFrame, defaultModel, defaultWrite, cstats>>

\* ManagedConversation.Clear, and GeminiConversation.Clear on the bound session
Clear ==
    /\ send.pc = "idle"
    /\ ConvMutexFree(conv.mu)
    /\ Memory(ClearConv(conv),
              IF conv.providerConv # NoSession
              THEN [sessions EXCEPT ![conv.providerConv].history = <<>>] ELSE sessions,
              send, view, arrays, bytes)
    /\ cstats' = [NoStats EXCEPT !.started = cstats.started, !.cleared = TRUE]
    /\ UNCHANGED <<convFrame, defaultModel, defaultWrite>>

\* a turn of the caller's own
CallerTurn == [Role |-> "user", Text |-> "edited", Images |-> NoArray]

\* the caller writes to the slice History() returned: an element replaced,
\* an element appended, a turn's Text assigned, an element of a turn's Images
\* assigned, a byte of an image's Data assigned
CallerWrites(kind, i) ==
    LET a == view[i].Images
    IN /\ send.pc = "idle"
       /\ kind = "append" \/ i \in 1..Len(view)
       /\ CASE kind = "turn" -> Memory(conv, sessions, send, [view EXCEPT ![i] = CallerTurn], arrays, bytes)
            [] kind = "append" -> /\ Len(view) <= Len(conv.history)
                                  /\ Memory(conv, sessions, send, Append(view, CallerTurn), arrays, bytes)
            [] kind = "text" -> Memory(conv, sessions, send, [view EXCEPT ![i].Text = "edited"], arrays, bytes)
            [] kind = "image" -> /\ a # NoArray
                                 /\ Memory(conv, sessions, send, view,
                                           [arrays EXCEPT ![a][1].MIMEType = "image/gif"], bytes)
            [] kind = "data" -> /\ a # NoArray
                                /\ Memory(conv, sessions, send, view, arrays,
                                          [bytes EXCEPT ![arrays[a][1].Data] = "edited"])
       /\ UNCHANGED <<convFrame, defaultModel, defaultWrite, cstats>>

\* SetDefaultModel from m.mu.Lock() into the store of the string
SetDefaultModelStores(model) ==
    /\ defaultWrite = Nil
    /\ model # defaultModel
    /\ defaultWrite' = model
    /\ UNCHANGED <<convFrame, defaultModel, conv, sessions, send, arrays, bytes, view, cstats>>

\* the store is complete and m.mu is released
SetDefaultModelReturns ==
    /\ defaultWrite # Nil
    /\ defaultModel' = defaultWrite
    /\ defaultWrite' = Nil
    /\ UNCHANGED <<convFrame, conv, sessions, send, arrays, bytes, view, cstats>>

NextConversation ==
    \/ \E nimages \in {0, 1} : \E cfgModel \in {Nil, "", TestModel, ModelNanoBanana2} :
          ConvSend("a", nimages, cfgModel)
    \/ ConvLookup
    \/ \E success \in BOOLEAN : ConvBackendReturns(success)
    \/ ConvReturn
    \/ Clear
    \/ \E model \in RouterModels : SetDefaultModelStores(model)
    \/ SetDefaultModelReturns

SpecConversation == InitConversation /\ [][NextConversation]_vars

\* the Sends counted since the last Clear all resolved to one provider, whose
\* backend has native conversations
OneNativeBackend ==
    /\ Cardinality(cstats.provs) = 1
    /\ \A pr \in cstats.provs : Conversational(MapGet(providers, pr))

\* the Sends counted since the last Clear all went to backends without
\* native conversations
OnlyStatelessBackends == \A pr \in cstats.provs : ~Conversational(MapGet(providers, pr))

\* C22: when the Sends since the last Clear all resolve to one backend with
\* native sessions, the first of them creates a session, the later ones
\* continue it and none creates another; when such a Send has succeeded, the
\* conversation's history is the history of the session
C22_OneSessionContinued ==
    /\ OneNativeBackend =>
          /\ cstats.created = 1
          /\ cstats.continued = cstats.resolved - 1
          /\ conv.providerConv # NoSession
    /\ (send.pc = "done" /\ send.err = "nil" /\ send.path \in {"new", "continue"}) =>
          conv.history = sessions[conv.providerConv].history

\* two Sends on a native backend: one session created, then continued, and
\* the history of the two exchanges taken from the session
C22_Witness ==
    /\ OneNativeBackend
    /\ cstats.resolved = 2 /\ cstats.created = 1 /\ cstats.continued = 1
    /\ send.pc = "done" /\ send.err = "nil" /\ send.path = "continue"
    /\ Len(conv.history) = 4

\* C23: on backends without native sessions the history holds, for the k
\* Sends that succeeded since the last Clear, 2k turns, a user turn followed
\* by the model turn of the same Send, in the order of the Sends, and k
\* backend calls succeeded
C23_FallbackHistoryPairs ==
    OnlyStatelessBackends =>
        /\ Len(conv.history) = 2 * cstats.ok
        /\ cstats.okCalls = cstats.ok
        /\ \A i \in 1..cstats.ok :
              /\ conv.history[2 * i - 1].Role = "user"
              /\ conv.history[2 * i].Role = "model"
              /\ conv.history[2 * i - 1].Images \in {NoArray, conv.history[2 * i].Images - 1}
        /\ \A i, j \in 1..cstats.ok : i < j => conv.history[2 * i].Images < conv.history[2 * j].Images

\* two Sends succeeded on a backend without sessions: four turns
C23_Witness ==
    /\ cstats.provs # {} /\ OnlyStatelessBackends
    /\ cstats.ok = 2
    /\ Len(conv.history) = 4
    /\ send.pc = "done"

\* C24 as stated: on the fallback path a Send makes one backend call, Edit
\* when it carries images and Generate when it carries none
C24_FallbackCallsEditOrGenerate ==
    send.path = "fallback" =>
        /\ send.calls = 1
        /\ send.op = IF Len(send.images) > 0 THEN "Edit" ELSE "Generate"

\* C24: on the fallback path a Send makes one backend call, EditMultiple
\* with all its images when it carries images and Generate when it carries none
C24_FallbackCallsEditMultipleOrGenerate ==
    send.path = "fallback" =>
        /\ send.calls = 1
        /\ send.op = IF Len(send.images) > 0 THEN "EditMultiple" ELSE "Generate"

\* a Send with an image is at the backend's EditMultiple
C24_Witness ==
    /\ send.pc = "backend" /\ send.path = "fallback"
    /\ Len(send.images) > 0
    /\ send.op = "EditMultiple" /\ send.calls = 1

\* C25: once Clear has returned the history is empty and no session is bound
\* until a Send resolves, and the first Send that then reaches a backend with
\* native sessions starts a session of its own
C25_ClearDropsHistoryAndSession ==
    /\ (cstats.cleared /\ cstats.resolved = 0) =>
          conv.history = <<>> /\ conv.providerConv = NoSession /\ conv.convProvider = ""
    /\ (cstats.cleared /\ cstats.resolved = 1 /\ send.pc = "backend" /\ OneNativeBackend) =>
          /\ send.path = "new"
          /\ cstats.created = 1
          /\ Len(sessions[conv.providerConv].history) = 1

\* a conversation bound to a session was cleared, and the next Send started
\* the second session
C25_Witness ==
    /\ cstats.cleared /\ cstats.resolved = 1
    /\ send.pc = "backend" /\ send.path = "new"
    /\ conv.providerConv = 2

\* C27: the model of a Send is the locked model of a conversation started
\* with StartConversationWithModel, else the config's model when it is set,
\* else the manager's default model; a Send whose model has no mapping
\* returns ErrModelNotRegistered
C27_EffectiveModel ==
    /\ [][(send.pc = "idle" /\ send'.pc = "lookup") =>
            send'.model \in (IF conv.modelLocked THEN {conv.lockedModel}
                             ELSE IF send'.cfgModel \notin {Nil, ""} THEN {send'.cfgModel}
                             ELSE {defaultModel, defaultWrite} \ {Nil})]_vars
    /\ [](send.pc = "done" /\ send.model \notin DOMAIN modelMappings => send.err = "model_not_registered")

\* C40: every step of a Send other than its successful return, from the
\* call to the return of an error (model not registered, backend not
\* configured, failure of the backend's call on a session or on the fallback
\* path), leaves the turns History() returns as they were
C40_FailedSendLeavesHistory ==
    [][(send' # send /\ ~(send'.pc = "done" /\ send'.err = "nil")) =>
          /\ conv'.history = conv.history
          /\ Contents(conv'.history, arrays', bytes') = Contents(conv.history, arrays, bytes)]_vars

\* a Send on the bound session failed: the session has its user turn, the
\* conversation's history is that of the Send before
C40_Witness ==
    /\ send.pc = "done" /\ send.err = "backend_error" /\ send.path = "continue"
    /\ Len(conv.history) = 2
    /\ Len(sessions[conv.providerConv].history) = 3

\* C28: a Send's call of the backend comes after a consumption on the
\* limiter registered for its model
C28_LimiterBeforeBackend ==
    send.pc = "backend" =>
        LET limiter == MapGet(rateLimiters, send.model)
        IN limiter # Nil =>
              \/ heap[limiter].tokens.remaining < heap[limiter].tokens.capacity
              \/ heap[limiter].requests.remaining < heap[limiter].requests.capacity

(***************************************************************************)
(* The conversation and the caller that keeps and writes the slices        *)
(* History() returns.                                                      *)
(***************************************************************************)

InitHistory ==
    InitConversationWith(Gens, {<<ModelInfo(TestModel, TestProvider, TestModelAPI, <<TokenBuffer, 1>>),
                                  ModelInfo(ModelNanoBanana2, TestProvider, OtherModelAPI, <<0, 0>>)>>},
                         {Nil})

NextHistory ==
    \/ \E nimages \in {0, 1} : ConvSend("a", nimages, Nil)
    \/ ConvLookup
    \/ \E success \in BOOLEAN : ConvBackendReturns(success)
    \/ ConvReturn
    \/ History
    \/ Clear
    \/ \E kind \in {"turn", "append", "text", "image", "data"} : \E i \in {1} :
          CallerWrites(kind, i)

SpecHistory == InitHistory /\ [][NextHistory]_vars

\* C26: what the conversation holds changes only by an operation on the
\* conversation: nothing the caller does to a slice History() returned, to
\* its turns or to the image data reachable from them changes it
C26_HistoryIsDefensiveCopy ==
    [][conv' = conv => Contents(conv'.history, arrays', bytes') = Contents(conv.history, arrays, bytes)]_vars

(***************************************************************************)
(* SetRateLimiter while a goroutine is inside checkRateLimit, step by step *)
(* through the limiter it fetched, with the clock.                         *)
(***************************************************************************)

\* limits under which an empty prompt takes all the tokens of an interval, so
\* that the next one waits for the refill
SwapLimits == <<TokenBuffer, MaxRequestsPerMinute>>

InitSwap ==
    /\ now = 0
    /\ tb = NewTokenBucket(0, 0, 0, 0) /\ exhaustedAt = NoTime /\ ret = NoRet
    /\ rl = NoLimiter /\ wac = NoWac /\ lret = NoLRet
    /\ LET m == NewManager("gen", <<ModelInfo(TestModel, TestProvider, TestModelAPI, SwapLimits)>>, 0)
       IN /\ heap = m.heap
          /\ rateLimiters = m.rateLimiters
          /\ modelMappings = m.modelMappings
          /\ providers = m.providers
          /\ defaultModel = m.defaultModel
    /\ mu = [l \in RouterLimiterIds |-> [b \in BucketNames |-> NoProc]]
    /\ granted = [l \in RouterLimiterIds |-> [b \in BucketNames |-> 0]]
    /\ req = [p \in Procs |-> IdleReq]
    /\ backendCalls = [p \in Procs |-> 0]
    /\ NoRegistry
    /\ NoRouterObs

NextSwap ==
    \/ Elapse
    \/ \E isNil \in BOOLEAN : SetRateLimiter(TestModel, SwapLimits, isNil)
    \/ \E p \in RouterProcs : \E waitOnRateLimit \in BOOLEAN : \E maxWait \in MaxWaits :
          Dispatch(p, TestModel, 0, waitOnRateLimit, maxWait)
    \/ \E p \in RouterProcs : CheckRateLimit(p)
    \/ \E p \in RouterProcs : ConsumeCompare(p)
    \/ \E p \in RouterProcs : ConsumeReturn(p)
    \/ \E p \in RouterProcs : \E arch \in GoArchs : \E ctxDone \in BOOLEAN : Estimate(p, arch, ctxDone)
    \/ \E p \in RouterProcs : CtxDone(p)
    \/ \E p \in RouterProcs : TimerFires(p)
    \/ \E p \in RouterProcs : \E op \in Ops : GetGenerator(p, op)
    \/ \E p \in RouterProcs : \E success \in BOOLEAN : BackendReturns(p, success)
    \/ \E p \in RouterProcs : Return(p)

SpecSwap == InitSwap /\ [][NextSwap]_vars

\* the request is between its fetch of the limiter and its return from it
InLimiter(r) == r.pc \in ConsumePcs \cup EstimatePcs \cup {"sleep"}

\* C30: a request that has fetched a limiter stays with that instance until
\* it leaves checkRateLimit, asleep or not, and charges no other; a
\* SetRateLimiter meanwhile leaves the request and the instance it fetched as
\* they were;
\* a request that starts its check fetches the instance then registered
C30_SwapLeavesFetchedLimiter ==
    /\ [][\A p \in RouterProcs :
             (InLimiter(req[p]) /\ req'[p] # req[p]) =>
                /\ \A l \in RouterLimiterIds \ {req[p].lim} : heap'[l] = heap[l]
                /\ InLimiter(req'[p]) => req'[p].lim = req[p].lim]_vars
    /\ [][\A p \in RouterProcs :
             /\ rateLimiters' # rateLimiters => req'[p] = req[p]
             /\ (InLimiter(req[p]) /\ req'[p] = req[p]) => heap'[req[p].lim] = heap[req[p].lim]]_vars
    /\ [][\A p \in RouterProcs :
             (req[p].pc = "checkRateLimit" /\ InLimiter(req'[p])) =>
                /\ req'[p].lim = MapGet(rateLimiters, req[p].model)
                /\ heap' = heap]_vars

\* a request that waited through a SetRateLimiter has taken its tokens and
\* its request token from the instance it fetched, and the instance
\* registered since is full
C30_Witness ==
    \E p \in RouterProcs :
        /\ req[p].pc = "getGenerator"
        /\ req[p].wait /\ req[p].tookRequests = 1 /\ req[p].tookTokens = TokenBuffer
        /\ req[p].lim = "L1"
        /\ MapGet(rateLimiters, TestModel) = "L2"
        /\ heap["L1"].tokens.remaining = 0 /\ heap["L1"].tokens.lastRefill > 0
        /\ heap["L2"].requests.remaining = heap["L2"].requests.capacity
        /\ heap["L2"].tokens.remaining = heap["L2"].tokens.capacity

(***************************************************************************)
(* A caller that polls one TokenBucket: it calls Wait(n), sleeps, and      *)
(* calls Wait(n) again until the wait is zero, then calls TryConsume(n).   *)
(* Nothing else calls the bucket.  The caller never stops, so the clock    *)
(* has no last instant here: a bucket reads the clock only through         *)
(* now - lastRefill, and every difference of a full interval or more is    *)
(* treated alike, so when the clock would pass MaxTime the origin of time  *)
(* is moved forward instead and lastRefill with it, never further back     *)
(* than one interval.                                                      *)
(***************************************************************************)

\* the times a caller lets pass between two calls: from one clock unit up
\* to the longest duration Wait returns for an amount within the capacity
SleepTimes == 1..(RefillInterval + RefillInterval \div 10)

\* the bucket with the origin of time moved forward by shift, t the clock after the move
Rebase(b, shift, t) == [b EXCEPT !.lastRefill = Max(@ - shift, t - b.refillInterval)]

InitWaiter ==
    /\ now = 0
    /\ heap = [l \in LimiterIds |-> NewLimiter(0, 0, 0)]
    /\ mu = [l \in LimiterIds |-> [b \in BucketNames |-> NoProc]]
    /\ granted = [l \in LimiterIds |-> [b \in BucketNames |-> 0]]
    /\ rateLimiters = [m \in {TestModel} |-> Nil]
    /\ modelMappings = [m \in {TestModel} |-> NoMapping]
    /\ providers = [pr \in {TestProvider} |-> Nil]
    /\ defaultModel = ModelDefault
    /\ req = [p \in Procs |-> IdleReq]
    /\ backendCalls = [p \in Procs |-> 0]
    /\ NoRegistry
    /\ closeCalls = [g \in Gens |-> 0]
    /\ installed = [m \in RouterModels |-> Unknown]
    /\ keptLimiter = [m \in RouterModels |-> FALSE]
    /\ lastMapping = [m \in RouterModels |-> NoMapping]
    /\ NoConstruct
    /\ NoConversation
    /\ declared = NoDeclared /\ peer = IdlePeer /\ mmu = {}
    /\ rl = NoLimiter /\ wac = NoWac /\ lret = NoLRet
    /\ exhaustedAt = NoTime /\ ret = NoRet
    /\ \E capacity \in 1..MaxCap : \E initialTokens \in 0..capacity : \E n \in 1..capacity :
          /\ tb = NewTokenBucket(capacity, initialTokens, RefillInterval, 0)
          /\ waiter = [NoWaiter EXCEPT !.pc = "call", !.n = n]

\* the caller calls Wait(n)
WaiterWait(arch) ==
    LET r == TokenBucketWait(tb, now, waiter.n, arch)
    IN /\ waiter.pc = "call"
       /\ tb' = r.tb
       /\ waiter' = [waiter EXCEPT !.pc = IF r.dur = 0 THEN "consume" ELSE "sleep", !.dur = r.dur]
       /\ UNCHANGED <<now, exhaustedAt, ret, limiterVars, heap, mu, granted, rateLimiters, modelMappings,
                      providers, defaultModel, req, backendCalls, mapRegistryVars, routerObs,
                      constructVars, convVars, declared, peer, mmu>>

\* the caller lets d clock units pass and is about to call again
WaiterSleeps(d) ==
    LET t == now + d
        shift == IF t > MaxTime THEN t - MaxTime ELSE 0
    IN /\ waiter.pc = "sleep"
       /\ now' = t - shift
       /\ tb' = Rebase(tb, shift, t - shift)
       /\ waiter' = [waiter EXCEPT !.pc = "call"]
       /\ UNCHANGED <<exhaustedAt, ret, limiterVars, heap, mu, granted, rateLimiters, modelMappings,
                      providers, defaultModel, req, backendCalls, mapRegistryVars, routerObs,
                      constructVars, convVars, declared, peer, mmu>>

\* after a zero wait the caller calls TryConsume(n), and starts over with
\* another amount
WaiterConsumes ==
    LET r == TokenBucketTryConsume(tb, now, waiter.n)
    IN /\ waiter.pc = "consume"
       /\ tb' = r.tb
       /\ waiter' = [waiter EXCEPT !.pc = "done", !.ok = r.ok]
       /\ UNCHANGED <<now, exhaustedAt, ret, limiterVars, heap, mu, granted, rateLimiters, modelMappings,
                      providers, defaultModel, req, backendCalls, mapRegistryVars, routerObs,
                      constructVars, convVars, declared, peer, mmu>>

WaiterAgain(n) ==
    /\ waiter.pc = "done"
    /\ n <= tb.capacity
    /\ waiter' = [NoWaiter EXCEPT !.pc = "call", !.n = n]
    /\ UNCHANGED <<now, tb, exhaustedAt, ret, limiterVars, heap, mu, granted, rateLimiters, modelMappings,
                   providers, defaultModel, req, backendCalls, mapRegistryVars, routerObs,
                   constructVars, convVars, declared, peer, mmu>>

NextWaiter ==
    \/ \E arch \in GoArchs : WaiterWait(arch)
    \/ \E d \in SleepTimes : WaiterSleeps(d)
    \/ WaiterConsumes
    \/ \E n \in 1..MaxCap : WaiterAgain(n)

\* the caller's goroutine keeps running: each of its calls returns and each
\* of its sleeps ends
SpecWaiter == InitWaiter /\ [][NextWaiter]_vars /\ WF_vars(NextWaiter)

\* C37: a caller that calls Wait(n) again and again with 0 < n <= capacity,
\* whatever time it lets pass between two calls, gets a zero wait after
\* finitely many calls, and the TryConsume(n) it then makes succeeds
C37_RepeatedWaitsConverge ==
    /\ (waiter.pc = "call") ~> (waiter.pc = "consume")
    /\ [](waiter.pc = "done" => waiter.ok)

(***************************************************************************)
(* RegisterModel with every kind of declared limits, SetRateLimiter and    *)
(* dispatches for the model, step by step through its limiter, with the    *)
(* clock.  What each registration declared is recorded.                    *)
(***************************************************************************)

\* RateLimits a registration declares: none, both, tokens only, requests only
RegisterLimits == {<<0, 0>>, <<TokenBuffer, 1>>, <<TokenBuffer, 0>>, <<0, 1>>}

\* exactly one of the two declared limits is positive
OneSided(limits) == (limits[1] > 0) # (limits[2] > 0)

InitRegister ==
    /\ now = 0
    /\ tb = NewTokenBucket(0, 0, 0, 0) /\ exhaustedAt = NoTime /\ ret = NoRet
    /\ rl = NoLimiter /\ wac = NoWac /\ lret = NoLRet
    /\ \E limits \in RegisterLimits :
          LET m == NewManager("gen", <<ModelInfo(TestModel, TestProvider, TestModelAPI, limits)>>, 0)
          IN /\ heap = m.heap
             /\ rateLimiters = m.rateLimiters
             /\ modelMappings = m.modelMappings
             /\ providers = m.providers
             /\ defaultModel = m.defaultModel
             /\ declared = [NoDeclared EXCEPT ![TestModel].limits = limits]
    /\ mu = [l \in RouterLimiterIds |-> [b \in BucketNames |-> NoProc]]
    /\ granted = [l \in RouterLimiterIds |-> [b \in BucketNames |-> 0]]
    /\ req = [p \in Procs |-> IdleReq]
    /\ backendCalls = [p \in Procs |-> 0]
    /\ NoRegistry
    /\ closeCalls = [g \in Gens |-> 0]
    /\ installed = [m \in RouterModels |-> Unknown]
    /\ keptLimiter = [m \in RouterModels |-> FALSE]
    /\ lastMapping = [m \in RouterModels |-> IF m = TestModel THEN MappingA ELSE NoMapping]
    /\ NoConstruct
    /\ NoConversation
    /\ waiter = NoWaiter /\ peer = IdlePeer /\ mmu = {}

\* RegisterModel seen from its caller, who knows the limits it declared
RegisterModelDeclares(model, mapping, limits) ==
    LET before == MapGet(rateLimiters, model)
        after == RegisterModelIn(ThisManager, model, mapping, limits[1], limits[2], now, Held)
        m == Settle(after, model, Held)
    IN /\ NeedsLimiter(limits[1], limits[2]) => RoomForLimiter(model)
       /\ modelMappings' = m.modelMappings
       /\ rateLimiters' = m.rateLimiters
       /\ heap' = m.heap
       /\ granted' = IF MapGet(after.rateLimiters, model) = before THEN granted
                     ELSE CollectGranted(granted, (Range(m.rateLimiters) \cup Held)
                                                     \ {MapGet(m.rateLimiters, model)})
       /\ installed' = [installed EXCEPT ![model] = Unknown]
       /\ keptLimiter' = [keptLimiter EXCEPT ![model] =
                              /\ model \in DOMAIN modelMappings
                              /\ before # Nil
                              /\ MapGet(after.rateLimiters, model) = before]
       /\ lastMapping' = [lastMapping EXCEPT ![model] = mapping]
       /\ declared' = [declared EXCEPT ![model].limits = limits,
                                       ![model].again = (model \in DOMAIN modelMappings)]
       /\ UNCHANGED <<now, bucketVars, limiterVars, mu, providers, defaultModel, req, backendCalls,
                      mapRegistryVars, closeCalls, constructVars, convVars, waiter, peer, mmu>>

\* SetRateLimiter seen from its caller
SetRateLimiterObserved(model, limits, isNil) ==
    LET id == FirstFree(SlotsOf(model), RouterLimiterIds \ (Range(rateLimiters) \cup Held))
        made == IF isNil THEN ThisManager
                ELSE [ThisManager EXCEPT !.heap = [@ EXCEPT ![id] = NewLimiter(limits[1], limits[2], now)]]
        after == SetRateLimiterIn(made, model, IF isNil THEN Nil ELSE id)
        m == Settle(after, model, Held)
    IN /\ ~isNil => RoomForLimiter(model)
       /\ rateLimiters' = m.rateLimiters
       /\ heap' = m.heap
       /\ installed' = [installed EXCEPT ![model] = IF isNil THEN Nil ELSE SlotsOf(model)[1]]
       /\ keptLimiter' = [keptLimiter EXCEPT ![model] = FALSE]
       /\ granted' = CollectGranted(granted, (Range(m.rateLimiters) \cup Held) \ {MapGet(m.rateLimiters, model)})
       /\ declared' = [declared EXCEPT ![model].set = TRUE]
       /\ UNCHANGED <<now, bucketVars, limiterVars, mu, modelMappings, providers, defaultModel,
                      req, backendCalls, mapRegistryVars, closeCalls, lastMapping,
                      constructVars, convVars, waiter, peer, mmu>>

NextRegister ==
    \/ Elapse
    \/ \E limits \in RegisterLimits : RegisterModelDeclares(TestModel, MappingA, limits)
    \/ \E isNil \in BOOLEAN : SetRateLimiterObserved(TestModel, <<TokenBuffer, 1>>, isNil)
    \/ \E p \in RouterProcs : \E waitOnRateLimit \in BOOLEAN :
          Dispatch(p, TestModel, 0, waitOnRateLimit, 0)
    \/ \E p \in RouterProcs : CheckRateLimit(p)
    \/ \E p \in RouterProcs : ConsumeCompare(p)
    \/ \E p \in RouterProcs : ConsumeReturn(p)
    \/ \E p \in RouterProcs : \E arch \in GoArchs : \E ctxDone \in BOOLEAN : Estimate(p, arch, ctxDone)
    \/ \E p \in RouterProcs : CtxDone(p)
    \/ \E p \in RouterProcs : TimerFires(p)
    \/ \E p \in RouterProcs : \E op \in Ops : GetGenerator(p, op)
    \/ \E p \in RouterProcs : \E success \in BOOLEAN : BackendReturns(p, success)
    \/ \E p \in RouterProcs : Return(p)

SpecRegister == InitRegister /\ [][NextRegister]_vars

\* the model's latest registration declared positive limits or none, and
\* SetRateLimiter was never called for the model
DeclaredOnly(m) == declared[m].limits # NoLimits /\ ~declared[m].set

\* C32: RegisterModel installs a limiter only when the declared limits are
\* non-zero, and then one whose bucket capacities are the declared limits; a
\* model registered with zero limits for which SetRateLimiter was never
\* called has no limiter, and no dispatch for it is rejected or delayed by
\* checkRateLimit: it leaves checkRateLimit for the backend in one step.
C32_LimiterOnlyForDeclaredLimits ==
    /\ [](\A m \in RouterModels :
            DeclaredOnly(m) =>
               LET l == MapGet(rateLimiters, m)
                   limits == declared[m].limits
               IN IF limits[1] > 0 \/ limits[2] > 0
                  THEN /\ l # Nil
                       /\ heap[l].tokens.capacity = limits[1]
                       /\ heap[l].requests.capacity = limits[2]
                  ELSE l = Nil)
    /\ [][\A p \in RouterProcs :
            (/\ req[p].pc = "checkRateLimit" /\ req'[p] # req[p]
             /\ DeclaredOnly(req[p].model)
             /\ declared[req[p].model].limits = <<0, 0>>)
            => req'[p].pc = "getGenerator" /\ req'[p].lim = Nil]_vars

\* the model's latest registration declared exactly one positive limit and
\* SetRateLimiter has not been called for the model since
OneSidedInForce(m) ==
    /\ declared[m].limits # NoLimits
    /\ OneSided(declared[m].limits)
    /\ installed[m] = Unknown

\* C39: a model registered with exactly one of the two limits positive gets a
\* limiter whose other bucket has capacity 0; until that limiter is replaced,
\* every dispatch for the model that does not wait gets this limiter, is
\* rejected with the rate-limit error and reaches no backend, however much
\* time passes.
C39_OneSidedLimitsRejectEverything ==
    /\ [](\A m \in RouterModels :
            OneSidedInForce(m) =>
               LET l == MapGet(rateLimiters, m)
                   limits == declared[m].limits
               IN /\ l # Nil
                  /\ heap[l].tokens.capacity = limits[1]
                  /\ heap[l].requests.capacity = limits[2]
                  /\ heap[l].tokens.capacity = 0 \/ heap[l].requests.capacity = 0
                  /\ \A p \in RouterProcs :
                        (req[p].lim = l /\ ~req[p].wait) =>
                           /\ req[p].pc \notin {"getGenerator", "backend"}
                           /\ req[p].pc = "done" =>
                                 req[p].err = "rate_limit" /\ backendCalls[p] = 0)
    /\ [][\A p \in RouterProcs :
            (/\ req[p].pc = "checkRateLimit" /\ req'[p] # req[p]
             /\ OneSidedInForce(req[p].model))
            => req'[p].lim = MapGet(rateLimiters, req[p].model) /\ req'[p].lim # Nil]_vars

\* a minute after a registration with a token limit only, a dispatch that
\* does not wait has been charged its tokens and rejected for the request
C39_Witness ==
    /\ OneSidedInForce(TestModel)
    /\ declared[TestModel].limits = <<TokenBuffer, 0>>
    /\ now >= RefillInterval
    /\ \E p \in RouterProcs :
          /\ req[p].pc = "done" /\ req[p].err = "rate_limit" /\ ~req[p].wait
          /\ req[p].lim = MapGet(rateLimiters, TestModel)
          /\ req[p].tookTokens = TokenBuffer /\ req[p].tookRequests = 0
          /\ backendCalls[p] = 0

(***************************************************************************)
(* The locks of a dispatch: Manager.mu around each map read, the bucket    *)
(* mutexes inside the limiter, and nothing held in WaitAndConsume's select *)
(* or in the backend.  Two goroutines dispatch; SetRateLimiter,            *)
(* RegisterModel and Close take Manager.mu for writing.                    *)
(***************************************************************************)

\* m.mu.RLock() by goroutine p
RLock(readers, p) == readers \cup {p}

RUnlock_Skipped(readers, p) == readers

\* m.mu.RUnlock() by goroutine p
RUnlock(readers, p) == readers \ {p}

\* m.mu.Lock() succeeds when no goroutine holds the lock for reading (the
\* writers of the model are single steps, so none holds it for writing)
ManagerMuFree(readers) == readers = {}

\* limits under which the second dispatch of an interval waits for the refill
LockLimits == <<TokenBuffer, 1>>

InitLocks ==
    /\ now = 0
    /\ tb = NewTokenBucket(0, 0, 0, 0) /\ exhaustedAt = NoTime /\ ret = NoRet
    /\ rl = NoLimiter /\ wac = NoWac /\ lret = NoLRet
    /\ LET m == NewManager("gen", <<ModelInfo(TestModel, TestProvider, TestModelAPI, LockLimits)>>, 0)
       IN /\ heap = m.heap
          /\ rateLimiters = m.rateLimiters
          /\ modelMappings = m.modelMappings
          /\ providers = m.providers
          /\ defaultModel = m.defaultModel
    /\ mu = [l \in RouterLimiterIds |-> [b \in BucketNames |-> NoProc]]
    /\ granted = [l \in RouterLimiterIds |-> [b \in BucketNames |-> 0]]
    /\ req = [p \in Procs |-> IdleReq]
    /\ backendCalls = [p \in Procs |-> 0]
    /\ NoRegistry
    /\ NoRouterObs

\* SetRateLimiter from a goroutine that takes m.mu.Lock(); the limiter of a
\* model is replaced once in a run
SetRateLimiterLocked(model, limits) ==
    /\ ManagerMuFree(mmu)
    /\ installed[model] = Unknown
    /\ SetRateLimiter(model, limits, FALSE)

\* what a step of a dispatch that takes or releases Manager.mu leaves alone
lockFrame == <<now, bucketVars, limiterVars, heap, mu, granted, rateLimiters, modelMappings,
               providers, defaultModel, mapRegistryVars, routerObs, constructVars, convVars,
               waiter, declared, peer>>

\* checkRateLimit: m.mu.RLock()
CheckRateLimitRLock(p) ==
    /\ req[p].pc = "checkRateLimit"
    /\ p \notin mmu
    /\ mmu' = RLock(mmu, p)
    /\ UNCHANGED <<lockFrame, req, backendCalls>>

\* checkRateLimit: the read of m.rateLimiters under the lock, m.mu.RUnlock()
\* and the way to the limiter
CheckRateLimitRUnlock(p) ==
    /\ p \in mmu
    /\ FetchLimiter(p)
    /\ mmu' = RUnlock(mmu, p)
    /\ UNCHANGED <<lockFrame, backendCalls>>

\* getProvider: m.mu.RLock(); resolveModel and the read of m.modelMappings
\* took and released the lock before
GetProviderRLock(p) ==
    /\ req[p].pc = "getGenerator"
    /\ p \notin mmu
    /\ mmu' = RLock(mmu, p)
    /\ UNCHANGED <<lockFrame, req, backendCalls>>

\* getProvider: the read of m.providers, the deferred m.mu.RUnlock() at its
\* return, and the call of the backend
GetProviderReturns(p, op) ==
    /\ p \in mmu
    /\ ForwardToBackend(p, op)
    /\ mmu' = RUnlock(mmu, p)
    /\ UNCHANGED lockFrame

\* RegisterModel from a goroutine that takes m.mu.Lock()
RegisterModelLocked(model, mapping, limits) ==
    /\ ManagerMuFree(mmu)
    /\ RegisterModel(model, mapping, limits[1], limits[2])

NextLocks ==
    \/ Elapse
    \/ SetRateLimiterLocked(TestModel, LockLimits)
    \/ RegisterModelLocked(ModelNanoBanana2, MappingA, <<0, 0>>)
    \/ \E p \in Procs : \E cfgModel \in RouterModels : \E waitOnRateLimit \in BOOLEAN :
          Dispatch(p, cfgModel, 0, waitOnRateLimit, 0)
    \/ \E p \in Procs : CheckRateLimitRLock(p)
    \/ \E p \in Procs : CheckRateLimitRUnlock(p)
    \/ \E p \in Procs : ConsumeCompare(p)
    \/ \E p \in Procs : ConsumeReturn(p)
    \/ \E p \in Procs : \E arch \in GoArchs : \E ctxDone \in BOOLEAN : Estimate(p, arch, ctxDone)
    \/ \E p \in Procs : CtxDone(p)
    \/ \E p \in Procs : TimerFires(p)
    \/ \E p \in Procs : GetProviderRLock(p)
    \/ \E p \in Procs : GetProviderReturns(p, "Generate")
    \/ \E p \in Procs : \E success \in BOOLEAN : BackendReturns(p, success)
    \/ \E p \in Procs : Return(p)

SpecLocks == InitLocks /\ [][NextLocks]_vars

\* goroutine p holds neither Manager.mu nor the mutex of any bucket
HoldsNoLock(p) ==
    /\ p \notin mmu
    /\ \A l \in RouterLimiterIds : \A b \in BucketNames : mu[l][b] # p

\* the request is inside the backend's Generate/Edit/EditMultiple or asleep in
\* WaitAndConsume's select
Parked(p) == req[p].pc \in {"backend", "sleep"}

\* no request of the goroutines in ps is between taking and releasing a lock
Quiet(ps) == \A p \in ps : Parked(p) \/ req[p].pc \in {"idle", "done"}

\* C34: a request that is inside a backend call or asleep in the rate-limit
\* wait holds no lock, neither Manager.mu nor a bucket's mutex.  So while the
\* other requests are in backend calls or asleep, a request that is about to
\* take a bucket's mutex for its bookkeeping finds it free, for the same model
\* or another, and while all of them are, Manager.mu is free for
\* RegisterModel and SetRateLimiter.
C34_NoLockAcrossBackendOrSleep ==
    /\ \A p \in Procs : Parked(p) => HoldsNoLock(p)
    /\ \A q \in Procs :
          Quiet(Procs \ {q}) =>
             /\ mmu \subseteq {q}
             /\ (req[q].pc \in (ConsumePcs \cup EstimatePcs) /\ req[q].phase = "lock")
                   => MutexFree(mu[req[q].lim][BucketOf(req[q].pc)])
    /\ Quiet(Procs) => ManagerMuFree(mmu)

\* one request is inside the backend, the other asleep on the limiter that
\* was in force when it came, and meanwhile the limiter was replaced and the
\* second model registered
C34_Witness ==
    /\ req["p1"].pc = "backend" /\ req["p2"].pc = "sleep"
    /\ req["p2"].lim # MapGet(rateLimiters, TestModel)
    /\ installed[TestModel] # Unknown
    /\ ModelNanoBanana2 \in DOMAIN modelMappings
    /\ mmu = {}

(***************************************************************************)
(* What one dispatch takes from its limiter, for every way the dispatch    *)
(* can end: the steps of SpecSwap, and Close, after which the backend of   *)
(* the model is no longer configured.                                      *)
(***************************************************************************)

NextCharge ==
    \/ NextSwap
    \/ Close

SpecCharge == InitSwap /\ [][NextCharge]_vars

\* the ways a dispatch ends
Outcomes == {"nil", "backend_error", "rate_limit", "wait_exceeded", "ctx", "failed_after_waiting",
             "provider_not_configured", "model_not_registered"}

\* C33: whatever the outcome of a dispatch, its limiter is charged at most
\* once: the call takes at most its estimated tokens from the tokens bucket
\* and at most 1 from the requests bucket, each step of the call lowers a
\* bucket by exactly what is counted as taken, and a wait that was cancelled
\* has taken nothing.
C33_LimiterChargedAtMostOnce ==
    /\ [](\A p \in RouterProcs :
            LET r == req[p]
            IN /\ r.tookTokens \in {0, r.n}
               /\ r.tookRequests \in {0, 1}
               /\ r.tookTokens <= EstimateTokens(r.promptLen) + TokenBuffer
               /\ r.pc = "done" => r.err \in Outcomes
               /\ (r.cancelledAsleep \/ r.err = "ctx") => r.tookTokens = 0 /\ r.tookRequests = 0)
    /\ [][\A p \in RouterProcs :
            LET r == req[p]
                l == r.lim
            IN (req'[p] # r /\ l # Nil /\ req'[p].pc # "idle") =>
                  /\ heap[l].tokens.remaining - heap'[l].tokens.remaining
                        <= req'[p].tookTokens - r.tookTokens
                  /\ heap[l].requests.remaining - heap'[l].requests.remaining
                        <= req'[p].tookRequests - r.tookRequests]_vars

\* the dispatch was charged its tokens and its request, and found the backend
\* closed
C33_Witness ==
    \E p \in RouterProcs :
       /\ req[p].pc = "done" /\ req[p].err = "provider_not_configured"
       /\ req[p].tookTokens = req[p].n /\ req[p].n > 0 /\ req[p].tookRequests = 1

(***************************************************************************)
(* Two goroutines on one conversation.  One calls Send, History and Clear  *)
(* as above; the other calls Send, followed here assignment by assignment  *)
(* through the fallback path's two appends to c.history.                   *)
(***************************************************************************)

\* a manager over either backend, and a conversation locked to its model
InitSerial ==
    InitConversationWith(Gens, {<<ModelInfo(TestModel, TestProvider, TestModelAPI, <<TokenBuffer, 1>>)>>},
                         {TestModel})

\* what no step of the second goroutine touches
peerFrame == <<now, bucketVars, limiterVars, heap, mu, granted, rateLimiters, modelMappings, providers,
               req, backendCalls, mapRegistryVars, routerObs, constructVars, waiter, declared, mmu,
               defaultModel, defaultWrite>>

\* Send of the second goroutine, with a prompt and no images, from
\* c.mu.Lock() to the model it has determined
PeerSend ==
    LET n == cstats.started + 1
    IN /\ peer.pc = "idle"
       /\ ConvMutexFree(conv.mu)
       /\ cstats.started < MaxSends
       /\ \E dflt \in DefaultReads :
             /\ Memory([conv EXCEPT !.mu = "peer"], sessions, send, view, arrays, bytes)
             /\ peer' = [IdlePeer EXCEPT !.pc = "lookup", !.n = n,
                                         !.model = DetermineModel(conv, Nil, dflt)]
       /\ cstats' = [cstats EXCEPT !.started = n]
       /\ UNCHANGED peerFrame

\* its Send from the mapping lookup to the call of the backend
PeerLookup ==
    LET ok == peer.model \in DOMAIN modelMappings
        mapping == IF ok THEN modelMappings[peer.model] ELSE NoMapping
        gen == MapGet(providers, mapping.Provider)
        userTurn == UserTurn("b", <<>>, NoArray)
    IN /\ peer.pc = "lookup"
       /\ IF ~ok
          THEN /\ Memory([conv EXCEPT !.mu = NoProc], sessions, send, view, arrays, bytes)
               /\ peer' = [peer EXCEPT !.pc = "done", !.err = "model_not_registered"]
          ELSE IF ContinuesSession(conv, mapping)
          THEN /\ Memory(conv, [sessions EXCEPT ![conv.providerConv].history = Append(@, userTurn)],
                         send, view, arrays, bytes)
               /\ peer' = [peer EXCEPT !.pc = "backend", !.path = "continue", !.op = "Send"]
          ELSE IF gen = Nil
          THEN /\ Memory([conv EXCEPT !.mu = NoProc], sessions, send, view, arrays, bytes)
               /\ peer' = [peer EXCEPT !.pc = "done", !.err = "provider_not_configured"]
          ELSE IF Conversational(gen)
          THEN /\ Memory([conv EXCEPT !.providerConv = peer.n, !.convProvider = mapping.Provider],
                         [sessions EXCEPT ![peer.n].history = <<userTurn>>],
                         send, view, arrays, bytes)
               /\ peer' = [peer EXCEPT !.pc = "backend", !.path = "new", !.op = "Send"]
          ELSE /\ Memory(conv, sessions, send, view, arrays, bytes)
               /\ peer' = [peer EXCEPT !.pc = "backend", !.path = "fallback", !.op = FallbackOp(<<>>)]
       /\ UNCHANGED <<peerFrame, cstats>>

\* the backend's call returns to the second goroutine: an error returns from
\* Send; a session's reply is followed by `c.history = c.providerConv.History()`
\* and the return; a single generation by `c.history = append(c.history, userTurn)`
PeerBackendReturns(success) ==
    LET modelTurn == ModelTurn(2 * peer.n)
        result == [arrays EXCEPT ![2 * peer.n] = <<[Data |-> 2 * peer.n, MIMEType |-> "image/png"]>>]
        session == Append(sessions[conv.providerConv].history, modelTurn)
        returned == [bytes EXCEPT ![2 * peer.n] = "out"]
    IN /\ peer.pc = "backend"
       /\ IF ~success
          THEN /\ Memory(SendFails(conv, sessions), sessions, send, view, arrays, bytes)
               /\ peer' = [peer EXCEPT !.pc = "done", !.err = "backend_error"]
          ELSE IF peer.path = "fallback"
          THEN /\ Memory([conv EXCEPT !.history = Append(@, UserTurn("b", <<>>, NoArray))],
                         sessions, send, view, arrays, bytes)
               /\ peer' = [peer EXCEPT !.pc = "appended"]
          ELSE /\ Memory([conv EXCEPT !.mu = NoProc, !.history = HistoryCopy(session)],
                         [sessions EXCEPT ![conv.providerConv].history = session],
                         send, view, result, returned)
               /\ peer' = [peer EXCEPT !.pc = "done", !.err = "nil"]
       /\ UNCHANGED <<peerFrame, cstats>>

\* `c.history = append(c.history, modelTurn)`, the return and the deferred
\* Unlock
PeerAppendsModelTurn ==
    /\ peer.pc = "appended"
    /\ Memory([conv EXCEPT !.mu = NoProc, !.history = Append(@, ModelTurn(2 * peer.n))],
              sessions, send, view,
              [arrays EXCEPT ![2 * peer.n] = <<[Data |-> 2 * peer.n, MIMEType |-> "image/png"]>>],
              [bytes EXCEPT ![2 * peer.n] = "out"])
    /\ peer' = [peer EXCEPT !.pc = "done", !.err = "nil"]
    /\ UNCHANGED <<peerFrame, cstats>>

\* the second goroutine has what Send returned
PeerReturn ==
    /\ peer.pc = "done"
    /\ peer' = IdlePeer
    /\ UNCHANGED <<peerFrame, convVars>>

NextSerial ==
    \/ ConvSend("a", 0, Nil)
    \/ ConvLookup
    \/ \E success \in BOOLEAN : ConvBackendReturns(success)
    \/ ConvReturn
    \/ History
    \/ Clear
    \/ PeerSend
    \/ PeerLookup
    \/ \E success \in BOOLEAN : PeerBackendReturns(success)
    \/ PeerAppendsModelTurn
    \/ PeerReturn

SpecSerial == InitSerial /\ [][NextSerial]_vars

\* a user turn is always followed at once by a model turn
Paired(history) ==
    \A i \in 1..Len(history) :
       history[i].Role = "user" => (i < Len(history) /\ history[i + 1].Role = "model")

\* the manager's backends have no sessions: every Send is a single generation
StatelessBackends == \A pr \in DOMAIN providers : ~Conversational(providers[pr])

\* a Send of either goroutine is between c.mu.Lock() and its Unlock
Sending(pc) == pc \in {"lookup", "backend", "appended"}

\* C31: Send, History and Clear on one conversation exclude each other:
\* the two goroutines are never both inside Send, so their backend calls
\* never overlap; whoever is inside Send holds the lock, and History and
\* Clear act only when nobody does; on the fallback path the history seen
\* with the lock free, and every slice History returned, has each user turn
\* followed at once by its model turn.
C31_ConversationIsSerialized ==
    /\ [](~(Sending(send.pc) /\ Sending(peer.pc)))
    /\ [](Sending(send.pc) => conv.mu = "send")
    /\ [](Sending(peer.pc) => conv.mu = "peer")
    /\ [](StatelessBackends => (Paired(view) /\ (conv.mu = NoProc => Paired(conv.history))))
    /\ [][(view' # view \/ (conv'.history = <<>> /\ conv.history # <<>>))
            => (~Sending(send.pc) /\ ~Sending(peer.pc) /\ conv.mu = NoProc)]_vars
    /\ [][(view' # view) => view' = conv.history]_vars

\* the second goroutine is between the two appends of its Send, holding the
\* lock, and what History returned before is the pair of turns that the first
\* goroutine's Send left
C31_Witness ==
    /\ StatelessBackends
    /\ peer.pc = "appended" /\ conv.mu = "peer"
    /\ Len(conv.history) = 3 /\ conv.history[3].Role = "user" /\ conv.history[3].Text = "b"
    /\ Len(view) = 2 /\ view[1].Text = "a" /\ view[2].Role = "model"
    /\ send.pc = "idle"

====
